---------------------------- MODULE Spec2Model ----------------------------
(***************************************************************************)
(* A state-machine model of the Theranostic Digital Twin (TDT) pipeline:   *)
(* the batch driver (src/main.py), the shared context (src/context.py) and *)
(* the pipeline stages (src/stages/..., src/src/stages/...).               *)
(*                                                                         *)
(* Conventions                                                             *)
(*  - Python's None is the empty tuple <<>>, a value v that is present is  *)
(*    the one-element tuple <<v>> (None / Some / IsNone below).            *)
(*  - A file-system path is a record [root, sub, file, key, i, w]: the     *)
(*    first path component below the repository directory, the sub-        *)
(*    directory, the kind of file, and what the file name is formatted     *)
(*    from (ROI / organ name, frame or core index, energy window).         *)
(*  - A NIfTI / numpy volume is a record [shape, data] with data a         *)
(*    function from the index triples of the shape to integer labels.      *)
(*  - External collaborators (TotalSegmentator, dicom2nifti, SimpleITK,    *)
(*    PyCNO) are opaque: whether a call raises or leaves its output is a   *)
(*    nondeterministic choice; what a segmenter writes is the variable ts. *)
(***************************************************************************)
EXTENDS Integers, Sequences, FiniteSets, TLC

(***************************************************************************)
(* Bounds of the model.                                                    *)
(***************************************************************************)
\* entries of input_ct_dir in one run of the driver
MaxEntries == 2
\* entries of input_ct_dir when the driver is run a second time
MaxRerunEntries == 1
\* times the driver is started on the same output tree
MaxDriverRuns == 2
\* runs of the segmentation stage on one output tree
MaxSegRuns == 3
\* entries of input_ct_dir when stages are run on their own
MaxStageEntries == 1
\* largest CT index whose output root is compared
MaxRootIndex == 11

---------------------------------------------------------------------------
(***************************************************************************)
(* Python values                                                           *)
(***************************************************************************)
None == <<>>
Some(v) == <<v>>
IsNone(x) == x = <<>>
Val(x) == x[1]

\* the elements of a sequence / list
Elems(s) == {s[k] : k \in DOMAIN s}

\* a list without its repeated elements, first occurrences kept in order
RECURSIVE Dedup(_)
Dedup(s) ==
    IF s = <<>> THEN <<>>
    ELSE LET r == Dedup(SubSeq(s, 1, Len(s) - 1))
             x == s[Len(s)]
         IN IF x \in Elems(r) THEN r ELSE Append(r, x)

---------------------------------------------------------------------------
(***************************************************************************)
(* Strings as sequences of characters: file names are compared, lowered    *)
(* and formatted as Python does.                                           *)
(***************************************************************************)
\* ord(c) of the characters that occur in the model
Ord(c) ==
    CASE c = "-" -> 45 [] c = "." -> 46 [] c = "0" -> 48 [] c = "1" -> 49
      [] c = "2" -> 50 [] c = "3" -> 51 [] c = "4" -> 52 [] c = "5" -> 53
      [] c = "6" -> 54 [] c = "7" -> 55 [] c = "8" -> 56 [] c = "9" -> 57
      [] c = "C" -> 67 [] c = "I" -> 73 [] c = "N" -> 78 [] c = "T" -> 84
      [] c = "_" -> 95 [] c = "a" -> 97 [] c = "b" -> 98 [] c = "c" -> 99
      [] c = "g" -> 103 [] c = "h" -> 104 [] c = "i" -> 105 [] c = "n" -> 110
      [] c = "t" -> 116 [] c = "x" -> 120 [] c = "z" -> 122

\* str.lower() on one character
LowerChar(c) ==
    CASE c = "C" -> "c" [] c = "I" -> "i" [] c = "N" -> "n" [] c = "T" -> "t"
      [] OTHER -> c

Lower(s) == [k \in DOMAIN s |-> LowerChar(s[k])]

\* s.endswith(suffix)
EndsWith(s, suffix) ==
    /\ Len(s) >= Len(suffix)
    /\ SubSeq(s, Len(s) - Len(suffix) + 1, Len(s)) = suffix

\* s.startswith(".")
StartsWithDot(s) == Len(s) > 0 /\ s[1] = "."

\* s < t for Python strings: by code point, a proper prefix first
RECURSIVE StrLess(_, _)
StrLess(s, t) ==
    IF t = <<>> THEN FALSE
    ELSE IF s = <<>> THEN TRUE
    ELSE IF Ord(Head(s)) < Ord(Head(t)) THEN TRUE
    ELSE IF Ord(Head(s)) > Ord(Head(t)) THEN FALSE
    ELSE StrLess(Tail(s), Tail(t))

\* sorted(S) of a set of distinct strings
RECURSIVE SortedNames(_)
SortedNames(S) ==
    IF S = {} THEN <<>>
    ELSE LET m == CHOOSE x \in S : \A y \in S \ {x} : StrLess(x, y)
         IN <<m>> \o SortedNames(S \ {m})

\* str(n) for n >= 0
DigitChar(d) ==
    CASE d = 0 -> "0" [] d = 1 -> "1" [] d = 2 -> "2" [] d = 3 -> "3"
      [] d = 4 -> "4" [] d = 5 -> "5" [] d = 6 -> "6" [] d = 7 -> "7"
      [] d = 8 -> "8" [] d = 9 -> "9"

RECURSIVE Str(_)
Str(n) == IF n < 10 THEN <<DigitChar(n)>>
          ELSE Str(n \div 10) \o <<DigitChar(n % 10)>>

---------------------------------------------------------------------------
(***************************************************************************)
(* The input directory: the names the model draws the entries of           *)
(* input_ct_dir from, and what kind of entry each is.                      *)
(***************************************************************************)
NameHidden == <<".", "h">>
NameDicomDir == <<"c">>
NameNii == <<"a", ".", "n", "i", "i">>
NameNiiGz == <<"a", "-", ".", "N", "I", "I", ".", "g", "z">>
NameText == <<"b", ".", "t", "x", "t">>

NameUniverse ==
    {NameHidden, NameDicomDir, NameNii, NameNiiGz, NameText}

\* os.path.isdir / os.path.isfile of an entry of the input directory
IsDir(name) == name = NameDicomDir
IsFile(name) == name \in NameUniverse /\ ~IsDir(name)

---------------------------------------------------------------------------
(***************************************************************************)
(* Paths and the output tree                                               *)
(***************************************************************************)
\* config["output_folder"]["title"]
Title == <<"T">>

\* config["subdir_names"]: key -> directory name (here the key itself)
SubdirKeys == {"spect_preprocessing", "pbpk", "spect_simulation"}

\* a directory <root>/<sub>
Dir(root, sub) == [root |-> root, sub |-> sub]

\* os.path.join(dir, <file name formatted from key, i, w>)
Join(dir, file, key, i, w) ==
    [root |-> dir.root, sub |-> dir.sub, file |-> file, key |-> key,
     i |-> i, w |-> w]

\* a file whose name is formatted from nothing but the stage prefix
JoinPlain(dir, file) == Join(dir, file, "", 0, 0)

\* a file directly in the output root
InRoot(root, file) == JoinPlain(Dir(root, ""), file)

\* a mis-derived root: the CT index left out of the folder title
OutputRoot_NoIndex(ct_indx) == Title \o <<"_", "C", "T", "_">>

\* f"{title}_CT_{ct_indx}" below the directory of main.py
OutputRoot(ct_indx) == Title \o <<"_", "C", "T", "_">> \o Str(ct_indx)

\* os.path.exists(p) on the output tree d
Exists(d, p) == p \in DOMAIN d

\* the tree d after p was written with content c
Write(d, p, c) == [q \in (DOMAIN d) \cup {p} |-> IF q = p THEN c ELSE d[q]]

\* the tree d after p was removed
Remove(d, p) == [q \in (DOMAIN d) \ {p} |-> d[q]]

---------------------------------------------------------------------------
(***************************************************************************)
(* Volumes                                                                 *)
(***************************************************************************)
Coords(shape) ==
    (0 .. shape[1] - 1) \X (0 .. shape[2] - 1) \X (0 .. shape[3] - 1)

\* a volume holding v everywhere (np.zeros for v = 0)
Full(shape, v) == [shape |-> shape, data |-> [c \in Coords(shape) |-> v]]

\* the labels a volume holds
Labels(vol) == {vol.data[c] : c \in DOMAIN vol.data}

\* arr[mask] = v
Paint(vol, mask, v) ==
    [vol EXCEPT !.data = [c \in DOMAIN vol.data |->
                            IF c \in mask THEN v ELSE vol.data[c]]]

\* the voxels where a volume holds one of the labels
Where(vol, labs) == {c \in DOMAIN vol.data : vol.data[c] \in labs}

\* np.transpose(arr, (2, 1, 0))
Transpose210(vol) ==
    [shape |-> <<vol.shape[3], vol.shape[2], vol.shape[1]>>,
     data |-> [c \in Coords(<<vol.shape[3], vol.shape[2], vol.shape[1]>>) |->
                 vol.data[<<c[3], c[2], c[1]>>]]]

\* arr[:, ::-1, :]
FlipAxis1(vol) ==
    [shape |-> vol.shape,
     data |-> [c \in DOMAIN vol.data |->
                 vol.data[<<c[1], vol.shape[2] - 1 - c[2], c[3]>>]]]

\* arr.astype(np.uint8) on a non-negative label
U8(v) == v % 256

---------------------------------------------------------------------------
(***************************************************************************)
(* data/tdt_map.json: the three label maps (name -> id)                    *)
(***************************************************************************)
TdtNames ==
    {"body", "kidney", "liver", "prostate", "spleen", "heart",
     "salivary_glands", "synthetic_lesion"}

\* ts_map_json["TDT_Pipeline"], reversed
tdt_name2id(name) ==
    CASE name = "body" -> 1 [] name = "kidney" -> 2 [] name = "liver" -> 3
      [] name = "prostate" -> 4 [] name = "spleen" -> 5 [] name = "heart" -> 6
      [] name = "salivary_glands" -> 7 [] name = "synthetic_lesion" -> 8

\* the canonical TDT id set
TdtIds == {tdt_name2id(n) : n \in TdtNames}

\* id -> name of the TDT_Pipeline map
tdt_id2name(id) == CHOOSE n \in TdtNames : tdt_name2id(n) = id

\* ts_map_json["total"], reversed, for the names the pipeline uses
total_name2id(name) ==
    CASE name = "spleen" -> 1 [] name = "kidney_right" -> 2
      [] name = "kidney_left" -> 3 [] name = "liver" -> 5
      [] name = "prostate" -> 22 [] name = "heart" -> 51

\* ts_map_json["head_glands_cavities"], reversed
head_name2id(name) ==
    CASE name = "parotid_gland_left" -> 6 [] name = "parotid_gland_right" -> 7
      [] name = "submandibular_gland_right" -> 8
      [] name = "submandibular_gland_left" -> 9

---------------------------------------------------------------------------
(***************************************************************************)
(* The shared context and the state a stage works on                       *)
(***************************************************************************)
\* Context.__init__: every field starts as None
EmptyContext ==
    [mode |-> None, ct_input_path |-> None, ct_input_type |-> None,
     ct_indx |-> None, output_folder_path |-> None, subdir_paths |-> None,
     config |-> None,
     ct_nii_path |-> None, body_ml_path |-> None,
     head_glands_cavities_ml_path |-> None, total_ml_path |-> None,
     totseg_plan |-> None,
     tdt_roi_seg_path |-> None,
     synthetic_lesions_outdir |-> None, synthetic_lesions_results |-> None,
     body_seg_arr |-> None, roi_body_seg_arr |-> None, mask_roi_body |-> None,
     class_seg |-> None, atn_av_path |-> None, arr_px_spacing_cm |-> None,
     arr_shape_new |-> None,
     activity_map_sum |-> None, activity_organ_sum |-> None,
     activity_map_paths_by_organ |-> None, pbpk_height_m |-> None,
     pbpk_weight_kg |-> None, pbpk_parameters |-> None,
     spect_sim_output_dir |-> None]

ContextFields == DOMAIN EmptyContext

\* an exception: its Python class, what it reports, and the names it lists
NoErr == [kind |-> "none", tag |-> "", names |-> <<>>]
Err(kind, tag, names) == [kind |-> kind, tag |-> tag, names |-> names]

\* the state a stage works on: the context, the output tree, the external
\* tools invoked so far, the file operations so far, and the exception that
\* ended the stage (NoErr while it runs)
St(ctx, disk, calls, log) ==
    [ctx |-> ctx, disk |-> disk, calls |-> calls, log |-> log, err |-> NoErr]

Ok(st) == st.err = NoErr

Raise(st, kind, tag, names) == [st EXCEPT !.err = Err(kind, tag, names)]

\* a file written (created or overwritten)
WriteFile(st, p, c) ==
    [st EXCEPT !.disk = Write(@, p, c),
               !.log = Append(@, [op |-> "write", path |-> p])]

\* os.remove(p)
RemoveFile(st, p) ==
    [st EXCEPT !.disk = Remove(@, p),
               !.log = Append(@, [op |-> "remove", path |-> p])]

\* os.makedirs(dir, exist_ok=True)
MakeDirs(st, dir) ==
    IF Exists(st.disk, JoinPlain(dir, "/")) THEN st
    ELSE WriteFile(st, JoinPlain(dir, "/"), [dir |-> TRUE])

\* an external tool invoked
Call(st, tool, task, out) ==
    [st EXCEPT !.calls = Append(@, [tool |-> tool, task |-> task, out |-> out])]

\* the attributes of a context that are no fields: its methods and the
\* attributes set with object.__setattr__ or before the fields
ContextMethods ==
    {"require", "attach_logger", "extras_set", "extras_update", "extras",
     "_logger", "_log_enabled"}

\* hasattr(self, n)
hasattr(c, n) == n \in DOMAIN c \/ n \in ContextMethods

\* getattr(self, n) is None
getattr_is_none(c, n) == n \in DOMAIN c /\ IsNone(c[n])

\* Context.require that reports the first missing name only
require_FirstMissing(st, names) ==
    LET missing == SelectSeq(names, LAMBDA n : ~hasattr(st.ctx, n)
                                               \/ getattr_is_none(st.ctx, n))
    IN IF missing # <<>>
       THEN Raise(st, "AttributeError", "missing_context_field",
                  <<missing[1]>>)
       ELSE st

\* Context.require(*names)
require(st, names) ==
    LET missing == SelectSeq(names, LAMBDA n : ~hasattr(st.ctx, n)
                                               \/ getattr_is_none(st.ctx, n))
    IN IF missing # <<>>
       THEN Raise(st, "AttributeError", "missing_context_field", missing)
       ELSE st

---------------------------------------------------------------------------
(***************************************************************************)
(* Stage 1: TotalSegmentationStage                                         *)
(***************************************************************************)
TDT_ALLOWED_ROIS ==
    {"body", "kidney", "liver", "prostate", "spleen", "heart",
     "salivary_glands"}

\* TDT_TO_TOTSEG[r]: the segmenter task of a ROI and the names it expands to
TDT_TO_TOTSEG(r) ==
    CASE r = "kidney" ->
           [task |-> "total", expanded |-> <<"kidney_left", "kidney_right">>]
      [] r = "liver" -> [task |-> "total", expanded |-> <<"liver">>]
      [] r = "prostate" -> [task |-> "total", expanded |-> <<"prostate">>]
      [] r = "spleen" -> [task |-> "total", expanded |-> <<"spleen">>]
      [] r = "heart" -> [task |-> "total", expanded |-> <<"heart">>]
      [] r = "salivary_glands" ->
           [task |-> "head_glands_cavities",
            expanded |-> <<"parotid_gland_left", "parotid_gland_right",
                           "submandibular_gland_left",
                           "submandibular_gland_right">>]
      [] r = "body" -> [task |-> "body", expanded |-> <<>>]

\* str(r).strip() on the ROI strings of the model
Strip(r) ==
    CASE r = " kidney " -> "kidney" [] r = " " -> "" [] OTHER -> r

\* [str(r).strip() for r in rois if str(r).strip()]; a bare string is one ROI
NormalizeRois(roi_subset) ==
    SelectSeq([k \in DOMAIN roi_subset.list |-> Strip(roi_subset.list[k])],
              LAMBDA r : r # "")

\* the expanded names of the ROIs of one task, in request order, no repeats
RECURSIVE ExpandTask(_, _)
ExpandTask(rois, task) ==
    IF rois = <<>> THEN <<>>
    ELSE LET e == TDT_TO_TOTSEG(Head(rois))
         IN Dedup((IF e.task = task THEN e.expanded ELSE <<>>)
                  \o ExpandTask(Tail(rois), task))

\* a plan that runs the total task whatever is requested
BuildPlan_TotalAlways(rois) ==
    [run_body |-> TRUE, run_total |-> TRUE,
     run_head_glands_cavities |-> ExpandTask(rois, "head_glands_cavities") # <<>>,
     total_roi_subset |-> ExpandTask(rois, "total"),
     head_roi_subset |-> ExpandTask(rois, "head_glands_cavities"),
     tdt_roi_subset |-> rois]

\* the plan built from a valid ROI list
BuildPlan(rois) ==
    LET total_rois == ExpandTask(rois, "total")
        head_rois == ExpandTask(rois, "head_glands_cavities")
    IN [run_body |-> TRUE,
        run_total |-> total_rois # <<>>,
        run_head_glands_cavities |-> head_rois # <<>>,
        total_roi_subset |-> total_rois,
        head_roi_subset |-> head_rois,
        tdt_roi_subset |-> rois]

\* checks that drop the names they do not know instead of raising
pre_totalsegmentation_checks_Lenient(roi_subset) ==
    LET rois == SelectSeq(NormalizeRois(roi_subset),
                          LAMBDA r : r \in TDT_ALLOWED_ROIS)
    IN [err |-> NoErr, plan |-> Some(BuildPlan(rois))]

\* _pre_totalsegmentation_checks: the exception it raises, and the plan
pre_totalsegmentation_checks(roi_subset) ==
    LET rois == NormalizeRois(roi_subset)
        invalid == SelectSeq(rois, LAMBDA r : r \notin TDT_ALLOWED_ROIS)
    IN IF rois = <<>>
       THEN [err |-> Err("ValueError", "empty_roi_subset", <<>>), plan |-> None]
       ELSE IF invalid # <<>>
       THEN [err |-> Err("ValueError", "invalid_roi", invalid), plan |-> None]
       ELSE [err |-> NoErr, plan |-> Some(BuildPlan(rois))]

\* what an external tool can do when invoked: leave its output, raise, or
\* return without leaving its output
ToolOutcomes == {"ok", "raise", "nofile"}

\* an external tool asked to produce the file p, whose content would be c
ExtTool(st, outcome, p, c) ==
    CASE outcome = "ok" -> WriteFile(st, p, c)
      [] outcome = "raise" -> Raise(st, "RuntimeError", "external_tool", <<>>)
      [] outcome = "nofile" -> st

\* what the converters and the three segmenter tasks do in one stage run
SegExt ==
    [std : {"ok", "raise"}, body : ToolOutcomes, total : ToolOutcomes,
     head : ToolOutcomes]

\* context.subdir_paths["spect_preprocessing"]
PreprocDir(ctx) == Val(ctx.subdir_paths)["spect_preprocessing"]

\* TotalSegmentationStage.__init__
SegInit(st) ==
    IF IsNone(st.ctx.config)
    THEN Raise(st, "TypeError", "none_subscript", <<"config">>)
    ELSE IF IsNone(st.ctx.subdir_paths)
    THEN Raise(st, "TypeError", "none_subscript", <<"subdir_paths">>)
    ELSE MakeDirs(st, PreprocDir(st.ctx))

\* _standardize_ct_to_nifti
standardize_ct_to_nifti(st, ext, tsv) ==
    IF ~Ok(st) THEN st
    ELSE LET ct_nii_path == JoinPlain(PreprocDir(st.ctx), "ct.nii.gz")
             ct_input_path == st.ctx.ct_input_path
         IN IF Exists(st.disk, ct_nii_path) THEN st
            ELSE IF IsNone(ct_input_path)
            THEN Raise(st, "TypeError", "none_path", <<"ct_input_path">>)
            ELSE IF IsDir(Val(ct_input_path))
            THEN ExtTool(Call(st, "dicom2nifti", "", ct_nii_path),
                         ext.std, ct_nii_path, tsv.ct)
            ELSE IF \/ EndsWith(Lower(Val(ct_input_path)),
                                <<".", "n", "i", "i">>)
                    \/ EndsWith(Lower(Val(ct_input_path)),
                                <<".", "n", "i", "i", ".", "g", "z">>)
            THEN ExtTool(Call(st, "sitk", "", ct_nii_path),
                         ext.std, ct_nii_path, tsv.ct)
            ELSE Raise(st, "ValueError", "unsupported_ct_input", <<>>)

\* the three mask files of the stage
SegMaskPath(ctx, task) ==
    JoinPlain(PreprocDir(ctx),
              CASE task = "body" -> "body_ml.nii.gz"
                [] task = "total" -> "total_ml.nii.gz"
                [] task = "head_glands_cavities" ->
                     "head_glands_cavities_ml.nii.gz")

\* totalsegmentator(ct_nii_path, out, ml=True, task=task[, roi_subset=...]):
\* the call with its roi_subset keyword, None when the call passes none
totalsegmentator(st, task, out, roi_subset) ==
    [st EXCEPT !.calls = Append(@, [tool |-> "totalsegmentator", task |-> task,
                                    out |-> out, roi_subset |-> roi_subset])]

\* a task run whether or not its output exists
SegTask_Always(st, enabled, done, task, roi_subset, outcome, vol) ==
    IF ~Ok(st) \/ ~enabled THEN st
    ELSE ExtTool(totalsegmentator(st, task, SegMaskPath(st.ctx, task),
                                  roi_subset),
                 outcome, SegMaskPath(st.ctx, task), vol)

\* one of the three "if plan[...] and not ..._done: totalsegmentator(...)"
SegTask(st, enabled, done, task, roi_subset, outcome, vol) ==
    IF ~Ok(st) \/ ~enabled \/ done THEN st
    ELSE ExtTool(totalsegmentator(st, task, SegMaskPath(st.ctx, task),
                                  roi_subset),
                 outcome, SegMaskPath(st.ctx, task), vol)

\* the final existence checks of run()
SegVerify(st, plan) ==
    IF ~Ok(st) THEN st
    ELSE IF plan.run_body /\ ~Exists(st.disk, SegMaskPath(st.ctx, "body"))
    THEN Raise(st, "FileNotFoundError", "seg_output_missing", <<"body">>)
    ELSE IF plan.run_total /\ ~Exists(st.disk, SegMaskPath(st.ctx, "total"))
    THEN Raise(st, "FileNotFoundError", "seg_output_missing", <<"total">>)
    ELSE IF /\ plan.run_head_glands_cavities
            /\ ~Exists(st.disk, SegMaskPath(st.ctx, "head_glands_cavities"))
    THEN Raise(st, "FileNotFoundError", "seg_output_missing",
               <<"head_glands_cavities">>)
    ELSE st

\* the context update that ends run()
SegPublish(st, plan) ==
    IF ~Ok(st) THEN st
    ELSE [st EXCEPT !.ctx =
            [@ EXCEPT
               !.ct_nii_path = Some(JoinPlain(PreprocDir(st.ctx), "ct.nii.gz")),
               !.body_ml_path = Some(SegMaskPath(st.ctx, "body")),
               !.total_ml_path =
                   IF plan.run_total THEN Some(SegMaskPath(st.ctx, "total"))
                   ELSE None,
               !.head_glands_cavities_ml_path =
                   IF plan.run_head_glands_cavities
                   THEN Some(SegMaskPath(st.ctx, "head_glands_cavities"))
                   ELSE None,
               !.totseg_plan = Some(plan)]]

\* run() from the plan on: the tasks that are enabled and whose output was
\* absent when _files_exist() looked, then the checks and the context update
SegTasks(st, plan, ext, tsv) ==
    LET body_ml_done == Exists(st.disk, SegMaskPath(st.ctx, "body"))
        total_ml_done == Exists(st.disk, SegMaskPath(st.ctx, "total"))
        head_ml_done ==
            Exists(st.disk, SegMaskPath(st.ctx, "head_glands_cavities"))
        s1 == SegTask(st, plan.run_body, body_ml_done, "body", None, ext.body,
                      tsv.body)
        s2 == SegTask(s1, plan.run_total, total_ml_done, "total",
                      Some(plan.total_roi_subset), ext.total, tsv.total)
        s3 == SegTask(s2, plan.run_head_glands_cavities, head_ml_done,
                      "head_glands_cavities", None, ext.head, tsv.head)
    IN SegPublish(SegVerify(s3, plan), plan)

\* TotalSegmentationStage(context).run()
SegRun(st, ext, tsv) ==
    LET s1 == standardize_ct_to_nifti(SegInit(st), ext, tsv)
    IN IF ~Ok(s1) THEN s1
       ELSE LET chk == pre_totalsegmentation_checks(
                           Val(s1.ctx.config).roi_subset)
            IN IF chk.err # NoErr THEN [s1 EXCEPT !.err = chk.err]
               ELSE SegTasks(s1, Val(chk.plan), ext, tsv)

---------------------------------------------------------------------------
(***************************************************************************)
(* Stage 2: TdtRoiUnifyStage                                               *)
(***************************************************************************)
\* TdtRoiUnifyStage.__init__
UnifyInit(st) ==
    IF IsNone(st.ctx.subdir_paths)
    THEN Raise(st, "TypeError", "none_subscript", <<"subdir_paths">>)
    ELSE LET s1 == MakeDirs(st, PreprocDir(st.ctx))
         IN IF IsNone(st.ctx.config)
            THEN Raise(s1, "TypeError", "none_subscript", <<"config">>)
            ELSE IF IsNone(st.ctx.totseg_plan)
            THEN Raise(s1, "ValueError", "missing_totseg_plan", <<>>)
            ELSE s1

\* "path is None or not os.path.exists(path)"
Missing(d, path) == IsNone(path) \/ ~Exists(d, Val(path))

\* _assert_inputs_exist
UnifyAssertInputsExist(st) ==
    LET plan == Val(st.ctx.totseg_plan)
    IN IF ~Ok(st) THEN st
       ELSE IF Missing(st.disk, st.ctx.ct_nii_path)
       THEN Raise(st, "FileNotFoundError", "input_missing", <<"ct">>)
       ELSE IF Missing(st.disk, st.ctx.body_ml_path)
       THEN Raise(st, "FileNotFoundError", "input_missing", <<"body">>)
       ELSE IF plan.run_total /\ Missing(st.disk, st.ctx.total_ml_path)
       THEN Raise(st, "FileNotFoundError", "input_missing", <<"total">>)
       ELSE IF /\ plan.run_head_glands_cavities
               /\ Missing(st.disk, st.ctx.head_glands_cavities_ml_path)
       THEN Raise(st, "FileNotFoundError", "input_missing", <<"head">>)
       ELSE st

\* a ROI painted whether or not it was requested
PaintRoi_Unrequested(vol, seg, ids, name, requested) ==
    Paint(vol, Where(seg, ids), tdt_name2id(name))

\* "if name in requested: roi_unified[seg in ids] = tdt_name2id[name]"
PaintRoi(vol, seg, ids, name, requested) ==
    IF name \in requested
    THEN Paint(vol, Where(seg, ids), tdt_name2id(name))
    ELSE vol

\* the TOTAL-task block of _create_roi_unified
PaintTotal(vol, total_seg, requested) ==
    LET v1 == PaintRoi(vol, total_seg,
                       {total_name2id("kidney_left"),
                        total_name2id("kidney_right")}, "kidney", requested)
        v2 == PaintRoi(v1, total_seg, {total_name2id("liver")}, "liver",
                       requested)
        v3 == PaintRoi(v2, total_seg, {total_name2id("prostate")}, "prostate",
                       requested)
        v4 == PaintRoi(v3, total_seg, {total_name2id("spleen")}, "spleen",
                       requested)
    IN PaintRoi(v4, total_seg, {total_name2id("heart")}, "heart", requested)

\* the HEAD-task block of _create_roi_unified
PaintHead(vol, head_seg, requested) ==
    PaintRoi(vol, head_seg,
             {head_name2id("parotid_gland_left"),
              head_name2id("parotid_gland_right"),
              head_name2id("submandibular_gland_left"),
              head_name2id("submandibular_gland_right")},
             "salivary_glands", requested)

\* the labels of the external volumes kept as they are, bar the body
create_roi_unified_unmapped(body_seg, total_seg, head_seg, plan) ==
    LET body == Paint(Full(body_seg.shape, 0),
                      {c \in DOMAIN body_seg.data : body_seg.data[c] > 0},
                      tdt_name2id("body"))
    IN IF ~IsNone(total_seg) /\ Val(total_seg).shape # body_seg.shape
       THEN [err |-> Err("ValueError", "shape_mismatch", <<"total">>),
             vol |-> None]
       ELSE [err |-> NoErr,
             vol |-> Some(IF IsNone(total_seg) THEN body
                          ELSE [body EXCEPT !.data =
                                  [c \in DOMAIN body.data |->
                                     IF Val(total_seg).data[c] > 0
                                     THEN U8(Val(total_seg).data[c])
                                     ELSE body.data[c]]])]

\* the head-task volume painted only when its shape fits, without complaint
create_roi_unified_HeadUnchecked(body_seg, total_seg, head_seg, plan) ==
    LET requested == Elems(plan.tdt_roi_subset)
        body == Paint(Full(body_seg.shape, 0),
                      {c \in DOMAIN body_seg.data : body_seg.data[c] > 0},
                      tdt_name2id("body"))
    IN IF ~IsNone(total_seg) /\ Val(total_seg).shape # body_seg.shape
       THEN [err |-> Err("ValueError", "shape_mismatch", <<"total">>),
             vol |-> None]
       ELSE LET v1 == IF IsNone(total_seg) THEN body
                      ELSE PaintTotal(body, Val(total_seg), requested)
            IN [err |-> NoErr,
                vol |-> Some(IF /\ ~IsNone(head_seg)
                                /\ "salivary_glands" \in requested
                                /\ Val(head_seg).shape = body_seg.shape
                             THEN PaintHead(v1, Val(head_seg), requested)
                             ELSE v1)]

\* _create_roi_unified: the exception it raises, and the unified volume
create_roi_unified(body_seg, total_seg, head_seg, plan) ==
    LET requested == Elems(plan.tdt_roi_subset)
        body == Paint(Full(body_seg.shape, 0),
                      {c \in DOMAIN body_seg.data : body_seg.data[c] > 0},
                      tdt_name2id("body"))
    IN IF ~IsNone(total_seg) /\ Val(total_seg).shape # body_seg.shape
       THEN [err |-> Err("ValueError", "shape_mismatch", <<"total">>),
             vol |-> None]
       ELSE LET v1 == IF IsNone(total_seg) THEN body
                      ELSE PaintTotal(body, Val(total_seg), requested)
            IN IF /\ ~IsNone(head_seg)
                  /\ "salivary_glands" \in requested
                  /\ Val(head_seg).shape # body_seg.shape
               THEN [err |-> Err("ValueError", "shape_mismatch", <<"head">>),
                     vol |-> None]
               ELSE [err |-> NoErr,
                     vol |-> Some(IF /\ ~IsNone(head_seg)
                                     /\ "salivary_glands" \in requested
                                  THEN PaintHead(v1, Val(head_seg), requested)
                                  ELSE v1)]

\* <output_dir>/<prefix>_tdt_roi_seg.nii.gz
TdtRoiSegPath(ctx) == JoinPlain(PreprocDir(ctx), "tdt_roi_seg.nii.gz")

\* TdtRoiUnifyStage(context).run()
UnifyRun(st) ==
    LET s1 == UnifyAssertInputsExist(UnifyInit(st))
    IN IF ~Ok(s1) THEN s1
       ELSE LET plan == Val(s1.ctx.totseg_plan)
                body_seg == s1.disk[Val(s1.ctx.body_ml_path)]
                total_seg == IF plan.run_total
                             THEN Some(s1.disk[Val(s1.ctx.total_ml_path)])
                             ELSE None
                head_seg ==
                    IF plan.run_head_glands_cavities
                    THEN Some(s1.disk[Val(s1.ctx.head_glands_cavities_ml_path)])
                    ELSE None
                u == create_roi_unified(body_seg, total_seg, head_seg, plan)
            IN IF u.err # NoErr THEN [s1 EXCEPT !.err = u.err]
               ELSE [WriteFile(s1, TdtRoiSegPath(s1.ctx), Val(u.vol))
                       EXCEPT !.ctx.tdt_roi_seg_path =
                                  Some(TdtRoiSegPath(s1.ctx))]

---------------------------------------------------------------------------
(***************************************************************************)
(* Stage 2.5: SyntheticLesionsStage.  Lengths (spacing, radii, margin) are  *)
(* whole millimetres and distances are compared by their squares.  The     *)
(* seeded sampler is a choice among the indices rng.choice can return.     *)
(***************************************************************************)
\* iterating a roi_subset: a list gives its items, a bare string its characters
Chars(r) ==
    CASE r = "spleen" -> <<"s", "p", "l", "e", "e", "n">>
      [] r = "liver" -> <<"l", "i", "v", "e", "r">>
      [] r = "" -> <<>>
      [] OTHER -> <<r>>

Iterate(roi_subset) ==
    IF roi_subset.str THEN Chars(roi_subset.list[1]) ELSE roi_subset.list

\* <output_dir>/<prefix>_outputs, and the per-ROI directory below it
LesionsOutdir(ctx) ==
    Dir(PreprocDir(ctx).root,
        PreprocDir(ctx).sub \o "/synthetic_lesions_outputs")
LesionsRoiDir(ctx, roi) ==
    Dir(LesionsOutdir(ctx).root, LesionsOutdir(ctx).sub \o "/" \o roi)

\* SyntheticLesionsStage.__init__
LesionsInit(st) ==
    IF IsNone(st.ctx.subdir_paths)
    THEN Raise(st, "TypeError", "none_subscript", <<"subdir_paths">>)
    ELSE LET s1 == MakeDirs(st, PreprocDir(st.ctx))
         IN IF IsNone(st.ctx.config)
            THEN Raise(s1, "AttributeError", "none_attribute", <<"config">>)
            ELSE s1

\* ceil(a / b) for b > 0
CeilDiv(a, b) == -((-a) \div b)

\* sqrt(d2) < t, for a squared distance d2 and a length t
SqrtLess(d2, t) == t > 0 /\ d2 < t * t

\* _phys_dist_mm, squared
phys_dist_sq(idx1_zyx, idx2_zyx, spacing_zyx) ==
    LET d == [a \in 1 .. 3 |-> (idx1_zyx[a] - idx2_zyx[a]) * spacing_zyx[a]]
    IN d[1] * d[1] + d[2] * d[2] + d[3] * d[3]

\* distance_transform_edt(mask, sampling=spacing), squared, at voxel c: the
\* distance to the nearest voxel outside the mask, 0 outside the mask (the
\* array is taken to hold a voxel outside the mask)
dist_sq(shape, mask, spacing_zyx, c) ==
    IF c \notin mask THEN 0
    ELSE LET ds == {phys_dist_sq(c, z, spacing_zyx) : z \in Coords(shape) \ mask}
         IN CHOOSE m \in ds : \A x \in ds : m <= x

\* np.argwhere on the voxels S of a (Z,Y,X) array: row-major order
Argwhere(shape, S) ==
    LET rank(c) == (c[1] * shape[2] + c[2]) * shape[3] + c[3]
    IN [k \in 1 .. Cardinality(S) |->
          CHOOSE c \in S : Cardinality({d \in S : rank(d) < rank(c)}) = k - 1]

\* _candidate_weights: the exception it raises
candidate_weights(prob, sigma_mm) ==
    CASE prob = "uniform" -> NoErr
      [] prob = "gaussian" ->
           IF IsNone(sigma_mm) THEN Err("ValueError", "sigma_required", <<>>)
           ELSE NoErr
      [] prob = "tom" -> Err("NotImplementedError", "tom", <<>>)
      [] prob = "user_defined" -> NoErr
      [] OTHER -> Err("ValueError", "unknown_prob", <<>>)

\* the overlap test without the margin
Clear_NoMargin(c, r, centers, radii, spacing_zyx, margin) ==
    \A j \in DOMAIN centers :
        ~SqrtLess(phys_dist_sq(c, centers[j], spacing_zyx), r + radii[j])

\* c is no closer to any placed centre than the two radii plus the margin
Clear(c, r, centers, radii, spacing_zyx, margin) ==
    \A j \in DOMAIN centers :
        ~SqrtLess(phys_dist_sq(c, centers[j], spacing_zyx),
                  r + radii[j] + margin)

\* the sampling loop of _place_lesion_centers from lesion i on.  draws[i] is
\* the index rng.choice returns for lesion i: drawn first when the candidate
\* is clear of the placed lesions, drawn at every attempt when it is not.
RECURSIVE PlaceSampled(_, _, _, _, _, _, _, _, _, _)
PlaceSampled(shape, mask, radii, spacing_zyx, prob, sigma_mm, margin, draws, i, centers) ==
    IF i > Len(radii) THEN [err |-> NoErr, centers |-> centers]
    ELSE LET r == radii[i]
             cand == Argwhere(shape,
                        {c \in Coords(shape) :
                           ~SqrtLess(dist_sq(shape, mask, spacing_zyx, c),
                                     r + margin)})
             c == cand[(draws[i] % Len(cand)) + 1]
         IN IF cand = <<>>
            THEN [err |-> Err("RuntimeError", "no_candidates", <<>>),
                  centers |-> centers]
            ELSE IF candidate_weights(prob, sigma_mm) # NoErr
            THEN [err |-> candidate_weights(prob, sigma_mm), centers |-> centers]
            ELSE IF ~Clear(c, r, centers, radii, spacing_zyx, margin)
            THEN [err |-> Err("RuntimeError", "attempts_exhausted", <<>>),
                  centers |-> centers]
            ELSE PlaceSampled(shape, mask, radii, spacing_zyx, prob, sigma_mm,
                              margin, draws, i + 1, Append(centers, c))

\* arr[c] for an index tuple c: a negative index counts from the end
InBounds(shape, c) == \A a \in 1 .. 3 : -shape[a] <= c[a] /\ c[a] < shape[a]
Wrap(shape, c) == <<c[1] % shape[1], c[2] % shape[2], c[3] % shape[3]>>

\* the user_defined loop of _place_lesion_centers from centre i on
RECURSIVE PlaceUser(_, _, _, _, _, _, _, _)
PlaceUser(shape, mask, radii, spacing_zyx, margin, user, i, centers) ==
    IF i > Len(user) \/ i > Len(radii) THEN [err |-> NoErr, centers |-> centers]
    ELSE LET c == user[i]
             r == radii[i]
         IN IF ~InBounds(shape, c)
            THEN [err |-> Err("IndexError", "index_out_of_bounds", <<>>),
                  centers |-> centers]
            ELSE IF Wrap(shape, c) \notin mask
            THEN [err |-> Err("ValueError", "center_not_inside", <<>>),
                  centers |-> centers]
            ELSE IF SqrtLess(dist_sq(shape, mask, spacing_zyx, Wrap(shape, c)),
                             r + margin)
            THEN [err |-> Err("ValueError", "center_too_close", <<>>),
                  centers |-> centers]
            ELSE IF ~Clear(c, r, centers, radii, spacing_zyx, margin)
            THEN [err |-> Err("ValueError", "center_overlaps", <<>>),
                  centers |-> centers]
            ELSE PlaceUser(shape, mask, radii, spacing_zyx, margin, user, i + 1,
                           Append(centers, c))

\* _place_lesion_centers: the exception it raises, and the centres (Z,Y,X)
place_lesion_centers(shape, mask, radii, spacing_zyx, prob, sigma_mm, margin, draws, user_centers_zyx) ==
    IF prob = "user_defined"
    THEN IF IsNone(user_centers_zyx)
         THEN [err |-> Err("ValueError", "user_centers_none", <<>>),
               centers |-> <<>>]
         ELSE IF Len(Val(user_centers_zyx)) # Len(radii)
         THEN [err |-> Err("ValueError", "user_centers_length", <<>>),
               centers |-> <<>>]
         ELSE PlaceUser(shape, mask, radii, spacing_zyx, margin,
                        Val(user_centers_zyx), 1, <<>>)
    ELSE PlaceSampled(shape, mask, radii, spacing_zyx, prob, sigma_mm, margin,
                      draws, 1, <<>>)

\* a mask as a 0/1 volume
MaskVol(shape, mask) == Paint(Full(shape, 0), mask, 1)

\* the lesions whose sphere holds voxel v: inside the box of per-axis radii
\* ceil(r / spacing) around the centre and within r of it
Spheres(v, centers, radii, spacing_zyx) ==
    {i \in DOMAIN centers :
        /\ \A a \in 1 .. 3 :
               /\ centers[i][a] - CeilDiv(radii[i], spacing_zyx[a]) <= v[a]
               /\ v[a] <= centers[i][a] + CeilDiv(radii[i], spacing_zyx[a])
        /\ phys_dist_sq(v, centers[i], spacing_zyx) <= radii[i] * radii[i]}

\* the greatest element of a non-empty set of numbers
Max(S) == CHOOSE m \in S : \A x \in S : x <= m

\* the spheres written where they fall, not only inside the ROI
build_lesion_labelmap_Unclipped(shape, mask, centers, radii, spacing_zyx) ==
    [shape |-> shape,
     data |-> [v \in Coords(shape) |->
                 IF Spheres(v, centers, radii, spacing_zyx) # {}
                 THEN Max(Spheres(v, centers, radii, spacing_zyx)) ELSE 0]]

\* _build_lesion_labelmap: each sphere, cut to the ROI, written with its
\* number over the spheres before it
build_lesion_labelmap(shape, mask, centers, radii, spacing_zyx) ==
    [shape |-> shape,
     data |-> [v \in Coords(shape) |->
                 IF v \in mask /\ Spheres(v, centers, radii, spacing_zyx) # {}
                 THEN Max(Spheres(v, centers, radii, spacing_zyx)) ELSE 0]]

\* the checks on one entry of specs before its lesions are placed
LesionSpecError(spec, organ_mask) ==
    IF spec.roi \notin TdtNames THEN Err("ValueError", "roi_not_in_map", <<spec.roi>>)
    ELSE IF spec.roi = "synthetic_lesion"
    THEN Err("ValueError", "lesion_in_lesion", <<spec.roi>>)
    ELSE IF organ_mask = {} THEN Err("ValueError", "empty_mask", <<spec.roi>>)
    ELSE IF spec.n_lesions <= 0 THEN Err("ValueError", "n_lesions", <<spec.roi>>)
    ELSE IF Len(spec.radii_mm) # spec.n_lesions
    THEN Err("ValueError", "radii_length", <<spec.roi>>)
    ELSE IF spec.prob = "user_defined" /\ IsNone(spec.user_centers_zyx)
    THEN Err("ValueError", "user_centers_missing", <<spec.roi>>)
    ELSE NoErr

\* "for local_id in range(1, max + 1): global_labels[labels == local_id] =
\* global_next_id; global_next_id += 1"
GlobalLabels(global_labels, roi_labels, global_next_id) ==
    [v \in DOMAIN global_labels |->
        IF roi_labels.data[v] > 0 THEN global_next_id + roi_labels.data[v] - 1
        ELSE global_labels[v]]

\* one pass of "for roi_name, spec in self.specs.items()": acc holds the stage
\* state, the global lesion masks (Z,Y,X) and the results so far
LesionsRoi(acc, spec, seg_zyx, spacing_zyx, draws) ==
    LET st == acc.st
        shape == seg_zyx.shape
        organ_mask ==
            IF spec.roi \in TdtNames
            THEN Where(seg_zyx, {tdt_name2id(spec.roi)}) ELSE {}
        e == LesionSpecError(spec, organ_mask)
        placed == place_lesion_centers(shape, organ_mask, spec.radii_mm,
                                       spacing_zyx, spec.prob, spec.sigma_mm,
                                       spec.margin_mm, draws,
                                       spec.user_centers_zyx)
        labels == build_lesion_labelmap(shape, organ_mask, placed.centers,
                                        spec.radii_mm, spacing_zyx)
        lesion == {v \in Coords(shape) : labels.data[v] > 0}
        roi_dir == LesionsRoiDir(st.ctx, spec.roi)
        s1 == MakeDirs(st, roi_dir)
        s2 == WriteFile(s1, Join(roi_dir, "lesions_labels.nii.gz", spec.roi, 0, 0),
                        Transpose210(labels))
        s3 == WriteFile(s2, Join(roi_dir, "lesions_binary.nii.gz", spec.roi, 0, 0),
                        Transpose210(MaskVol(shape, lesion)))
        s4 == WriteFile(s3, Join(roi_dir, "organ_minus_lesions.nii.gz", spec.roi,
                                 0, 0),
                        Transpose210(MaskVol(shape, organ_mask \ lesion)))
        meta == [roi |-> spec.roi, roi_id |-> tdt_name2id(spec.roi),
                 margin_mm |-> spec.margin_mm, spacing_zyx_mm |-> spacing_zyx,
                 centers_zyx |-> placed.centers, radii_mm |-> spec.radii_mm]
        s5 == WriteFile(s4, Join(roi_dir, "lesion_metadata.json", spec.roi, 0, 0),
                        meta)
    IN IF ~Ok(st) THEN acc
       ELSE IF e # NoErr THEN [acc EXCEPT !.st.err = e]
       ELSE IF placed.err # NoErr THEN [acc EXCEPT !.st.err = placed.err]
       ELSE [st |-> s5, binary |-> acc.binary \cup lesion,
             labels |-> GlobalLabels(acc.labels, labels, acc.next_id),
             next_id |-> acc.next_id + Max(Labels(labels) \cup {0}),
             results |-> Append(acc.results, meta)]

RECURSIVE LesionsLoop(_, _, _, _, _, _)
LesionsLoop(acc, specs, seg_zyx, spacing_zyx, draws, k) ==
    IF k > Len(specs) THEN acc
    ELSE LesionsLoop(LesionsRoi(acc, specs[k], seg_zyx, spacing_zyx, draws[k]),
                     specs, seg_zyx, spacing_zyx, draws, k + 1)

\* the lesion voxels written into an empty volume
InsertLesions_Fresh(seg_zyx, binary) ==
    Paint(Full(seg_zyx.shape, 0), binary, tdt_name2id("synthetic_lesion"))

\* "seg_zyx_mod = seg_zyx.copy(); seg_zyx_mod[global_lesion_binary_zyx > 0] =
\* np.uint8(self.synthetic_lesion_id)"
InsertLesions(seg_zyx, binary) ==
    Paint(seg_zyx, binary, tdt_name2id("synthetic_lesion"))

\* the indices rng.choice can return, one per lesion of each entry of specs,
\* given the unified volume on disk
LesionPicks(st) ==
    IF \/ IsNone(st.ctx.config)
       \/ IsNone(Val(st.ctx.config).specs)
       \/ IsNone(st.ctx.tdt_roi_seg_path)
       \/ ~Exists(st.disk, Val(st.ctx.tdt_roi_seg_path))
    THEN {<<>>}
    ELSE LET specs == Val(Val(st.ctx.config).specs)
             n == Cardinality(DOMAIN st.disk[Val(st.ctx.tdt_roi_seg_path)].data)
             most == Max({Len(specs[k].radii_mm) : k \in DOMAIN specs} \cup {0})
         IN [DOMAIN specs -> [1 .. most -> 0 .. n - 1]]

\* run() once the stage is known to have work: roi_subset, backup, ROI loop,
\* global masks, overwrite of the unified volume, context update.  ext holds
\* the draws of the sampler and the zooms of the header of the unified volume.
LesionsWork(st, specs, ext) ==
    LET outdir == LesionsOutdir(st.ctx)
        s1 == MakeDirs(st, outdir)
        stripped == SelectSeq(
            [k \in DOMAIN Iterate(Val(st.ctx.config).roi_subset) |->
               Strip(Iterate(Val(st.ctx.config).roi_subset)[k])],
            LAMBDA r : r # "")
        s2 == IF "synthetic_lesion" \in Elems(stripped) THEN s1
              ELSE [s1 EXCEPT !.ctx.config =
                      Some([Val(@) EXCEPT !.roi_subset =
                              [str |-> FALSE,
                               list |-> Append(stripped, "synthetic_lesion")]])]
        seg_path == Val(st.ctx.tdt_roi_seg_path)
        seg_xyz == st.disk[seg_path]
        seg_zyx == Transpose210(seg_xyz)
        spacing_zyx == <<ext.zooms[3], ext.zooms[2], ext.zooms[1]>>
        backup_path == JoinPlain(outdir, "tdt_roi_seg_pre_lesions.nii.gz")
        s3 == WriteFile(s2, backup_path,
                        [seg_xyz EXCEPT !.data =
                           [c \in DOMAIN seg_xyz.data |-> U8(seg_xyz.data[c])]])
        acc == LesionsLoop([st |-> s3, binary |-> {},
                            labels |-> [v \in Coords(seg_zyx.shape) |-> 0],
                            next_id |-> 1, results |-> <<>>],
                           specs, seg_zyx, spacing_zyx, ext.draws, 1)
        s4 == WriteFile(acc.st, JoinPlain(outdir, "all_lesions_binary.nii.gz"),
                        Transpose210(MaskVol(seg_zyx.shape, acc.binary)))
        s5 == WriteFile(s4, JoinPlain(outdir, "all_lesions_labels.nii.gz"),
                        Transpose210([shape |-> seg_zyx.shape,
                                      data |-> acc.labels]))
        seg_zyx_mod == InsertLesions(seg_zyx, acc.binary)
        s6 == WriteFile(s5, seg_path, Transpose210(seg_zyx_mod))
    IN IF ~Ok(acc.st) THEN acc.st
       ELSE [s6 EXCEPT !.ctx.synthetic_lesions_outdir = Some(outdir),
                       !.ctx.synthetic_lesions_results = Some(acc.results),
                       !.ctx.tdt_roi_seg_path = Some(seg_path)]

\* SyntheticLesionsStage(context).run()
LesionsRun(st, ext) ==
    LET s1 == LesionsInit(st)
        specs == Val(s1.ctx.config).specs
    IN IF ~Ok(s1) THEN s1
       ELSE IF IsNone(specs) \/ Val(specs) = <<>>
       THEN [s1 EXCEPT !.ctx.synthetic_lesions_outdir = None,
                       !.ctx.synthetic_lesions_results = Some(<<>>)]
       ELSE IF Missing(s1.disk, s1.ctx.tdt_roi_seg_path)
       THEN Raise(s1, "FileNotFoundError", "input_missing", <<"tdt_roi_seg">>)
       ELSE LesionsWork(s1, Val(specs), ext)

---------------------------------------------------------------------------
(***************************************************************************)
(* Stage 3: SimindPreprocessStage                                          *)
(***************************************************************************)
\* SimindPreprocessStage.__init__
PreInit(st) ==
    IF IsNone(st.ctx.subdir_paths)
    THEN Raise(st, "TypeError", "none_subscript", <<"subdir_paths">>)
    ELSE LET s1 == MakeDirs(st, PreprocDir(st.ctx))
         IN IF IsNone(st.ctx.config)
            THEN Raise(s1, "TypeError", "none_subscript", <<"config">>)
            ELSE s1

\* _to_simind_grid without resizing: to (z, y, x), then the y axis flipped
to_simind_grid(vol) == FlipAxis1(Transpose210(vol))

\* _to_simind_grid refuses to resize a grid that is not square in plane
ResizeError(vol, resize) ==
    ~IsNone(resize) /\ to_simind_grid(vol).shape[2] # to_simind_grid(vol).shape[3]

\* the requested names the TDT label map does not know
UnknownRois(roi_subset) ==
    SelectSeq(NormalizeRois(roi_subset), LAMBDA r : r \notin TdtNames)

\* _filter_to_requested_rois: body and the requested labels kept, the rest 0
filter_to_requested_rois(roi_arr, roi_subset) ==
    LET keep_ids == {tdt_name2id("body")}
                    \cup {tdt_name2id(r) : r \in Elems(NormalizeRois(roi_subset))}
    IN [roi_arr EXCEPT !.data =
          [c \in DOMAIN roi_arr.data |->
             IF roi_arr.data[c] \in keep_ids THEN roi_arr.data[c] ELSE 0]]

\* masks that overlap: a label's mask also takes the voxels of higher labels
build_label_masks_Overlapping(arr) ==
    [lab \in Labels(arr) \ {0} |->
       Where(arr, {l \in Labels(arr) : l >= lab})]

\* _build_label_masks: label -> the voxels that hold it, for non-zero labels
build_label_masks(arr) ==
    [lab \in Labels(arr) \ {0} |-> Where(arr, {lab})]

\* the ids of a set of labels in ascending order (np.unique)
RECURSIVE Ascending(_)
Ascending(S) ==
    IF S = {} THEN <<>>
    ELSE LET m == CHOOSE x \in S : \A y \in S : x <= y
         IN <<m>> \o Ascending(S \ {m})

\* _build_class_map: the ROIs present, as (name, id) in ascending id order
build_class_map(arr) ==
    LET labs == Ascending((Labels(arr) \ {0}) \cap TdtIds)
    IN [k \in DOMAIN labs |-> [name |-> tdt_id2name(labs[k]), id |-> labs[k]]]

\* a * b, voxel by voxel
Times(a, b) == [a EXCEPT !.data = [c \in DOMAIN a.data |-> a.data[c] * b.data[c]]]

\* _write_attenuation_bin: the attenuation of the HU value inside the body
\* mask (HU -> mu is strictly increasing, a voxel keeps its HU class), zero
\* attenuation outside
AttenuationMap(ct_arr, body_mask) ==
    [ct_arr EXCEPT !.data =
       [c \in DOMAIN ct_arr.data |->
          IF body_mask.data[c] = 1 THEN Some(ct_arr.data[c]) ELSE None]]

\* the voxel spacing of the CT in mm, (x, y, z)
ZoomsMm == <<1, 1, 1>>

\* run() after the existence checks
PreWork(st) ==
    LET cfg == Val(st.ctx.config)
        out == PreprocDir(st.ctx)
        ct_arr == to_simind_grid(st.disk[Val(st.ctx.ct_nii_path)])
        body_arr == to_simind_grid(st.disk[Val(st.ctx.body_ml_path)])
        roi_grid == to_simind_grid(st.disk[Val(st.ctx.tdt_roi_seg_path)])
        body_mask == [body_arr EXCEPT !.data =
                        [c \in DOMAIN body_arr.data |->
                           IF body_arr.data[c] > 0 THEN 1 ELSE 0]]
        roi_arr == filter_to_requested_rois(roi_grid, cfg.roi_subset)
        atn_av_path == JoinPlain(out, "spect_preprocessing_atn_av.bin")
        s1 == WriteFile(st, atn_av_path, AttenuationMap(ct_arr, body_mask))
        s2 == WriteFile(s1, JoinPlain(out, "roi_seg.bin"), roi_arr)
        s3 == WriteFile(s2, JoinPlain(out, "body_seg.bin"), body_mask)
        s4 == WriteFile(s3, JoinPlain(out, "roi_body_seg.bin"),
                        Times(roi_arr, body_mask))
    IN IF ResizeError(st.disk[Val(st.ctx.ct_nii_path)], cfg.xy_dim)
       THEN Raise(st, "ValueError", "resize_not_square", <<>>)
       ELSE IF UnknownRois(cfg.roi_subset) # <<>>
       THEN Raise(st, "ValueError", "roi_not_in_map",
                  <<UnknownRois(cfg.roi_subset)[1]>>)
       ELSE IF Labels(roi_arr) \ {0} = {}
       THEN Raise(st, "ValueError", "no_labels", <<>>)
       ELSE [s4 EXCEPT
               !.ctx.body_seg_arr = Some(body_mask),
               !.ctx.roi_body_seg_arr = Some(Times(roi_arr, body_mask)),
               !.ctx.mask_roi_body = Some(build_label_masks(roi_arr)),
               !.ctx.class_seg = Some(build_class_map(roi_arr)),
               !.ctx.atn_av_path = Some(atn_av_path),
               !.ctx.arr_px_spacing_cm =
                   Some(<<ZoomsMm[3], ZoomsMm[2], ZoomsMm[1]>>),
               !.ctx.arr_shape_new = Some(ct_arr.shape)]

\* SimindPreprocessStage(context).run()
PreRun(st) ==
    LET s1 == PreInit(st)
    IN IF ~Ok(s1) THEN s1
       ELSE IF Missing(s1.disk, s1.ctx.ct_nii_path)
       THEN Raise(s1, "FileNotFoundError", "input_missing", <<"ct">>)
       ELSE IF Missing(s1.disk, s1.ctx.body_ml_path)
       THEN Raise(s1, "FileNotFoundError", "input_missing", <<"body">>)
       ELSE IF Missing(s1.disk, s1.ctx.tdt_roi_seg_path)
       THEN Raise(s1, "FileNotFoundError", "input_missing", <<"tdt_roi_seg">>)
       ELSE PreWork(s1)

---------------------------------------------------------------------------
(***************************************************************************)
(* Stage 4: PbpkStage.  An activity map holds one concentration per voxel. *)
(* Activities are counted in units of 1/840 MBq, so that the division of   *)
(* an organ's activity by its voxel count is exact for masks of up to      *)
(* eight voxels; the rounding of float32 is outside the model.             *)
(***************************************************************************)
\* the observables of the PSMA model
VoiNames == {"Kidney", "Liver", "Prostate", "Spleen", "Heart", "SG", "Rest"}

VoiRank(voi) ==
    CASE voi = "Kidney" -> 1 [] voi = "Liver" -> 2 [] voi = "Prostate" -> 3
      [] voi = "Spleen" -> 4 [] voi = "Heart" -> 5 [] voi = "SG" -> 6
      [] voi = "Rest" -> 7

\* what is outside the stage's control in one run: whether the solver raises
\* and which kidney / salivary-gland parameters the sampler draws
PbpkExt == [solver : {"ok", "raise"}, seed : {1, 2}]

\* the parameters handed to the solver: the draw when randomization is on
Parameters(cfg, ext) ==
    IF cfg.Randomization_Kidney_SG_Para THEN ext.seed ELSE 0

\* np.interp(frame_start, time, tacs[0, :, voi_index])[k]: the solver is a
\* function of its parameters
TacInterp(parameters, voi, k) == 840 * (parameters + 1) * (VoiRank(voi) + k)

\* context.subdir_paths["pbpk"]
PbpkDir(ctx) == Val(ctx.subdir_paths)["pbpk"]

\* PbpkStage.__init__
PbpkInit(st) ==
    IF IsNone(st.ctx.subdir_paths)
    THEN Raise(st, "TypeError", "none_subscript", <<"subdir_paths">>)
    ELSE LET s1 == MakeDirs(st, PbpkDir(st.ctx))
         IN IF IsNone(st.ctx.config)
            THEN Raise(s1, "TypeError", "none_subscript", <<"config">>)
            ELSE s1

\* the loop over the four fields at the head of run()
PbpkRequire(st) ==
    LET missing ==
            SelectSeq(<<"roi_body_seg_arr", "mask_roi_body", "class_seg",
                        "arr_px_spacing_cm">>, LAMBDA k : IsNone(st.ctx[k]))
    IN IF ~Ok(st) THEN st
       ELSE IF missing # <<>>
       THEN Raise(st, "AttributeError", "missing_context_field",
                  <<missing[1]>>)
       ELSE st

\* _parameter_check: the exception it raises
ParameterCheckError(ctx) ==
    LET cfg == Val(ctx.config)
    IN IF IsNone(ctx.ct_input_path)
       THEN Err("TypeError", "none_path", <<"ct_input_path">>)
       ELSE IF cfg.VOIs = <<>> THEN Err("ValueError", "empty_vois", <<>>)
       ELSE IF cfg.FrameStartTimes = <<>>
       THEN Err("ValueError", "empty_frame_start", <<>>)
       ELSE IF \E k \in DOMAIN cfg.FrameStartTimes : cfg.FrameStartTimes[k] < 0
       THEN Err("ValueError", "negative_frame_start", <<>>)
       ELSE NoErr

\* _run_psma_model: parameters checked, provenance stored, then the solver
run_psma_model(st, ext) ==
    LET cfg == Val(st.ctx.config)
        e == ParameterCheckError(st.ctx)
        s1 == [st EXCEPT !.ctx.pbpk_parameters = Some(Parameters(cfg, ext))]
        s2 == Call(s1, "pycno", "PSMA", JoinPlain(PbpkDir(st.ctx), ""))
    IN IF ~Ok(st) THEN st
       ELSE IF e # NoErr THEN [st EXCEPT !.err = e]
       ELSE IF ext.solver = "raise"
       THEN Raise(s2, "RuntimeError", "external_tool", <<>>)
       ELSE s2

\* _roi_to_voi
roi_to_voi(roi_name) ==
    CASE roi_name = "kidney" -> Some("Kidney")
      [] roi_name = "body" -> Some("Rest")
      [] roi_name = "liver" -> Some("Liver")
      [] roi_name = "prostate" -> Some("Prostate")
      [] roi_name = "heart" -> Some("Heart")
      [] roi_name = "spleen" -> Some("Spleen")
      [] roi_name = "salivary_glands" -> Some("SG")
      [] OTHER -> None

\* the fallback taken from the head of the configured list instead of Rest
VoiFor_FirstVoi(roi_name, vois_pbpk) ==
    LET voi_name == roi_to_voi(roi_name)
    IN IF ~IsNone(voi_name) /\ Val(voi_name) \in Elems(vois_pbpk) THEN voi_name
       ELSE IF "Rest" \in Elems(vois_pbpk) THEN Some(vois_pbpk[1])
       ELSE None

\* the VOI whose curve an ROI takes: None when there is none
VoiFor(roi_name, vois_pbpk) ==
    LET voi_name == roi_to_voi(roi_name)
    IN IF ~IsNone(voi_name) /\ Val(voi_name) \in Elems(vois_pbpk) THEN voi_name
       ELSE IF "Rest" \in Elems(vois_pbpk) THEN Some("Rest")
       ELSE None

\* the time-activity samples of an ROI at the frame start times
RoiTac(ext, roi_name, cfg) ==
    [k \in DOMAIN cfg.FrameStartTimes |->
       TacInterp(Parameters(cfg, ext), Val(VoiFor(roi_name, cfg.VOIs)), k)]

\* _voxel_volume_ml
voxel_volume_ml(arr_px_spacing_cm) ==
    arr_px_spacing_cm[1] * arr_px_spacing_cm[2] * arr_px_spacing_cm[3]

\* np.sum of a map over the voxels in S
RECURSIVE SumOver(_, _)
SumOver(map, S) ==
    IF S = {} THEN 0
    ELSE LET c == CHOOSE x \in S : TRUE
         IN map[c] + SumOver(map, S \ {c})

\* np.sum(map, axis=(1, 2, 3)) of one frame
VoxelSum(map) == SumOver(map, DOMAIN map)

\* activity_map_organ: per frame, the concentration
\* tac_interp / (n_vox * voxel_vol_ml) on the mask and zero elsewhere
activity_map_organ(st, ext, roi) ==
    LET cfg == Val(st.ctx.config)
        mask == Val(st.ctx.mask_roi_body)[roi.id]
        n_vox == Cardinality(mask)
        voxel_vol_ml == voxel_volume_ml(Val(st.ctx.arr_px_spacing_cm))
        tac == RoiTac(ext, roi.name, cfg)
    IN [k \in DOMAIN cfg.FrameStartTimes |->
          [c \in DOMAIN Val(st.ctx.roi_body_seg_arr).data |->
             IF c \in mask THEN tac[k] \div (n_vox * voxel_vol_ml) ELSE 0]]

\* organ_sum = np.sum(activity_map_organ, axis=(1, 2, 3)) * voxel_vol_ml
organ_sum(st, ext, roi) ==
    LET organ == activity_map_organ(st, ext, roi)
    IN [k \in DOMAIN organ |->
          VoxelSum(organ[k]) * voxel_volume_ml(Val(st.ctx.arr_px_spacing_cm))]

\* _generate_time_activity_arr_roi: the first-frame map and the TAC files
generate_time_activity_arr_roi(st, ext, roi) ==
    LET cfg == Val(st.ctx.config)
        dir == PbpkDir(st.ctx)
        mask == Val(st.ctx.mask_roi_body)[roi.id]
        tac == RoiTac(ext, roi.name, cfg)
        s1 == WriteFile(st, Join(dir, "act_av.bin", roi.name, 0, 0),
                        activity_map_organ(st, ext, roi)[1])
        s2 == WriteFile(s1, Join(dir, "TAC_time.bin", roi.name, 0, 0),
                        [parameters |-> Parameters(cfg, ext)])
        s3 == WriteFile(s2, Join(dir, "TAC_values.bin", roi.name, 0, 0),
                        [parameters |-> Parameters(cfg, ext),
                         voi |-> VoiFor(roi.name, cfg.VOIs)])
        s4 == WriteFile(s3, Join(dir, "sample_times.bin", roi.name, 0, 0),
                        cfg.FrameStartTimes)
    IN IF ~Ok(st) THEN st
       ELSE IF IsNone(VoiFor(roi.name, cfg.VOIs))
       THEN Raise(st, "ValueError", "no_voi_mapping", <<roi.name>>)
       ELSE IF roi.id \notin DOMAIN Val(st.ctx.mask_roi_body)
       THEN Raise(st, "KeyError", "mask_roi_body", <<roi.name>>)
       ELSE IF mask = {}
       THEN Raise(st, "AssertionError", "empty_mask", <<roi.name>>)
       ELSE WriteFile(s4, Join(dir, "sample_values.bin", roi.name, 0, 0), tac)

\* "for roi_name, label_value in class_seg.items()"
RECURSIVE PbpkLoop(_, _, _)
PbpkLoop(st, ext, class_seg) ==
    IF class_seg = <<>> THEN st
    ELSE PbpkLoop(generate_time_activity_arr_roi(st, ext, Head(class_seg)), ext,
                  Tail(class_seg))

RECURSIVE SumSeq(_)
SumSeq(s) == IF s = <<>> THEN 0 ELSE Head(s) + SumSeq(Tail(s))

\* activity_map[:, mask] = activity_map_organ[:, mask]
PaintMask(activity_map, organ, mask) ==
    [k \in DOMAIN activity_map |->
       [c \in DOMAIN activity_map[k] |->
          IF c \in mask THEN organ[k][c] ELSE activity_map[k][c]]]

\* the whole-volume map after the loop over class_seg, from the map so far
RECURSIVE PaintOrgans(_, _, _, _)
PaintOrgans(st, ext, class_seg, activity_map) ==
    IF class_seg = <<>> THEN activity_map
    ELSE PaintOrgans(st, ext, Tail(class_seg),
                     PaintMask(activity_map,
                               activity_map_organ(st, ext, Head(class_seg)),
                               Val(st.ctx.mask_roi_body)[Head(class_seg).id]))

\* the per-frame whole-volume maps, one file per frame start time
RECURSIVE PbpkFrames(_, _, _)
PbpkFrames(st, activity_map, k) ==
    LET cfg == Val(st.ctx.config)
    IN IF k > Len(cfg.FrameStartTimes) THEN st
       ELSE PbpkFrames(
              WriteFile(st, Join(PbpkDir(st.ctx), "act_av.bin", "",
                                 cfg.FrameStartTimes[k], 0),
                        activity_map[k]),
              activity_map, k + 1)

\* the activity paths collected in the reverse of the loop order
PbpkRun_PathsReversed(st, ext) ==
    LET s1 == run_psma_model(PbpkRequire(PbpkInit(st)), ext)
        cfg == Val(s1.ctx.config)
        class_seg == SelectSeq(Val(s1.ctx.class_seg),
                               LAMBDA r : r.name # "background")
        voxel_vol_ml == voxel_volume_ml(Val(s1.ctx.arr_px_spacing_cm))
        s2 == PbpkLoop(s1, ext, class_seg)
        activity_map ==
            PaintOrgans(s1, ext, class_seg,
                        [k \in DOMAIN cfg.FrameStartTimes |->
                           [c \in DOMAIN Val(s1.ctx.roi_body_seg_arr).data |->
                              0]])
        s3 == PbpkFrames(s2, activity_map, 1)
    IN IF ~Ok(s1) THEN s1
       ELSE IF ~Ok(s2) THEN s2
       ELSE [s3 EXCEPT
               !.ctx.activity_map_sum =
                   Some([k \in DOMAIN cfg.FrameStartTimes |->
                           VoxelSum(activity_map[k]) * voxel_vol_ml]),
               !.ctx.activity_organ_sum =
                   Some([j \in DOMAIN class_seg |->
                           [name |-> class_seg[j].name,
                            sum |-> organ_sum(s1, ext, class_seg[j])]]),
               !.ctx.activity_map_paths_by_organ =
                   Some([j \in DOMAIN class_seg |->
                           Join(PbpkDir(s1.ctx), "act_av.bin",
                                class_seg[Len(class_seg) + 1 - j].name, 0,
                                0)])]

\* PbpkStage(context).run()
PbpkRun(st, ext) ==
    LET s1 == run_psma_model(PbpkRequire(PbpkInit(st)), ext)
        cfg == Val(s1.ctx.config)
        class_seg == SelectSeq(Val(s1.ctx.class_seg),
                               LAMBDA r : r.name # "background")
        voxel_vol_ml == voxel_volume_ml(Val(s1.ctx.arr_px_spacing_cm))
        s2 == PbpkLoop(s1, ext, class_seg)
        activity_map ==
            PaintOrgans(s1, ext, class_seg,
                        [k \in DOMAIN cfg.FrameStartTimes |->
                           [c \in DOMAIN Val(s1.ctx.roi_body_seg_arr).data |->
                              0]])
        s3 == PbpkFrames(s2, activity_map, 1)
    IN IF ~Ok(s1) THEN s1
       ELSE IF ~Ok(s2) THEN s2
       ELSE [s3 EXCEPT
               !.ctx.activity_map_sum =
                   Some([k \in DOMAIN cfg.FrameStartTimes |->
                           VoxelSum(activity_map[k]) * voxel_vol_ml]),
               !.ctx.activity_organ_sum =
                   Some([j \in DOMAIN class_seg |->
                           [name |-> class_seg[j].name,
                            sum |-> organ_sum(s1, ext, class_seg[j])]]),
               !.ctx.activity_map_paths_by_organ =
                   Some([j \in DOMAIN class_seg |->
                           Join(PbpkDir(s1.ctx), "act_av.bin",
                                class_seg[j].name, 0, 0)])]

---------------------------------------------------------------------------
(***************************************************************************)
(* Stage 5: SimindSimulationStage.  A projection file holds one number per *)
(* window; an average or a weighted sum is kept as the sequence of its     *)
(* terms [num, div].                                                       *)
(***************************************************************************)
\* os.cpu_count()
CpuCount == 2

\* context.subdir_paths["spect_simulation"] and <output_dir>/simind_work
SimindDir(ctx) == Val(ctx.subdir_paths)["spect_simulation"]
SimindWorkDir(ctx) ==
    Dir(SimindDir(ctx).root, SimindDir(ctx).sub \o "/simind_work")

\* the validated NumCores of __init__
NumCores(cfg) ==
    IF 1 <= cfg.NumCores /\ cfg.NumCores <= CpuCount THEN cfg.NumCores
    ELSE CpuCount

\* the child processes of one stage run that misbehave, at most
MaxFaults == 1

\* what a child process can do other than exit with 0 after leaving its
\* header and its three window files: its exit status and the outputs it
\* does not leave (0 the header, 1 .. 3 the window files); k is the place of
\* its organ in class_seg
ProcFaults(class_seg) ==
    {f \in [k : DOMAIN class_seg, j : 0 .. CpuCount - 1, code : {0, 1},
            missing : {{}, {3}, {0, 1, 2, 3}}] :
        f.code # 0 \/ f.missing # {}}

\* the orders in which n processes can terminate
Orders(n) ==
    {s \in [1 .. n -> 0 .. n - 1] : \A a, b \in 1 .. n : a # b => s[a] # s[b]}

\* when the n processes of an organ terminate.  The parent takes 2n steps, n
\* launches and then n waits; after[j] is the number of parent steps that
\* precede the termination of process j, which is launched by step j + 1 and
\* has terminated when the wait of step n + j + 1 returns; order is the order
\* in which the processes terminate
Schedules(n) ==
    {s \in [order : Orders(n), after : [0 .. n - 1 -> 1 .. 2 * n - 1]] :
        /\ \A j \in 0 .. n - 1 : j + 1 <= s.after[j] /\ s.after[j] <= n + j
        /\ \A a, b \in 1 .. n :
              a < b => s.after[s.order[a]] <= s.after[s.order[b]]}

\* every process terminates after the last launch, in launch order
LaunchOrder(n) ==
    [order |-> [a \in 1 .. n |-> a - 1], after |-> [j \in 0 .. n - 1 |-> n]]

\* what the simulator does in one stage run: the processes that misbehave,
\* in launch order, when the processes of an organ terminate, and whether
\* the calibration leaves calib.res
SimindExt(class_seg) ==
    [faults : {s \in UNION {[1 .. n -> ProcFaults(class_seg)] :
                              n \in 0 .. MaxFaults} :
                 \A a, b \in DOMAIN s :
                    a < b => s[a].k * CpuCount + s[a].j
                                 < s[b].k * CpuCount + s[b].j},
     sched : Schedules(CpuCount),
     calib : {"ok", "nofile"}]

\* the exit status of core j of the organ at place k and the outputs it
\* does not leave
ProcOutcome(ext, k, j) ==
    LET hits == {i \in DOMAIN ext.faults :
                    ext.faults[i].k = k /\ ext.faults[i].j = j}
    IN IF hits = {} THEN [code |-> 0, missing |-> {}]
       ELSE LET f == ext.faults[CHOOSE i \in hits : TRUE]
            IN [code |-> f.code, missing |-> f.missing]

\* the counts core j of an organ leaves in window w
CoreCounts(organ, j, w) == 10 * (j + 1) + w

\* SimindSimulationStage.__init__
SimindInit(st) ==
    IF IsNone(st.ctx.subdir_paths)
    THEN Raise(st, "TypeError", "none_subscript", <<"subdir_paths">>)
    ELSE LET s1 == MakeDirs(MakeDirs(st, SimindDir(st.ctx)),
                            SimindWorkDir(st.ctx))
         IN IF IsNone(st.ctx.config)
            THEN Raise(s1, "TypeError", "none_subscript", <<"config">>)
            ELSE s1

\* _set_simind_environment followed by _copy_templates
SimindSetup(st) ==
    LET s1 == [st EXCEPT !.log =
                 Append(@, [op |-> "setenv",
                            path |-> JoinPlain(SimindDir(st.ctx), "")])]
        s2 == WriteFile(s1, JoinPlain(SimindWorkDir(st.ctx), "simind.win"),
                        [template |-> "scattwin.win"])
    IN WriteFile(s2, JoinPlain(SimindWorkDir(st.ctx), "simind.smc"),
                 [template |-> "smc.smc"])

CoreFile(ctx, organ, j, w) == Join(SimindWorkDir(ctx), "tot.a00", organ, j, w)
CoreHeader(ctx, organ) == Join(SimindWorkDir(ctx), "tot.h00", organ, 0, 2)
OrganTotal(ctx, organ, w) == Join(SimindDir(ctx), "organ_tot.a00", organ, 0, w)
FrameTotal(ctx, t, w) == Join(SimindDir(ctx), "min_tot.a00", "", t, w)
CalibRes(ctx) == JoinPlain(SimindDir(ctx), "calib.res")

\* _organ_totals_exist and _organ_headers_exist
organ_totals_exist(st, organ) ==
    \A w \in 1 .. 3 : Exists(st.disk, OrganTotal(st.ctx, organ, w))
organ_headers_exist(st, organ) == Exists(st.disk, CoreHeader(st.ctx, organ))

\* _frame_totals_exist
frame_totals_exist(st) ==
    \A k \in DOMAIN Val(st.ctx.config).FrameStartTimes : \A w \in 1 .. 3 :
        Exists(st.disk,
               FrameTotal(st.ctx, Val(st.ctx.config).FrameStartTimes[k], w))

\* a file the process leaves unless it is among the outputs it does not leave
ProcWrite(st, out, w, p, c) ==
    IF w \in out.missing THEN st ELSE WriteFile(st, p, c)

\* every core launched with the seed of core 0
Popen_SameSeed(st, organ, j) ==
    [st EXCEPT
       !.calls = Append(@, [tool |-> "simind", task |-> organ,
                            out |-> CoreFile(st.ctx, organ, j, 0), rr |-> 0]),
       !.log = Append(@, [op |-> "popen",
                          path |-> CoreFile(st.ctx, organ, j, 0)])]

\* subprocess.Popen(cmd, ...) for core j: the command names the output tag
\* <prefix>_<organ>_<j> and ends with the switch /rr:<j>
Popen(st, organ, j) ==
    [st EXCEPT
       !.calls = Append(@, [tool |-> "simind", task |-> organ,
                            out |-> CoreFile(st.ctx, organ, j, 0), rr |-> j]),
       !.log = Append(@, [op |-> "popen",
                          path |-> CoreFile(st.ctx, organ, j, 0)])]

\* the process of core j terminates: what it has left, and its exit status
ProcExit(st, ext, k, organ, j) ==
    LET out == ProcOutcome(ext, k, j)
        s1 == ProcWrite(st, out, 1, CoreFile(st.ctx, organ, j, 1),
                        CoreCounts(organ, j, 1))
        s2 == ProcWrite(s1, out, 2, CoreFile(st.ctx, organ, j, 2),
                        CoreCounts(organ, j, 2))
        s3 == ProcWrite(s2, out, 3, CoreFile(st.ctx, organ, j, 3),
                        CoreCounts(organ, j, 3))
        s4 == IF j = 0
              THEN ProcWrite(s3, out, 0, CoreHeader(st.ctx, organ),
                             [header |-> organ])
              ELSE s3
    IN [s4 EXCEPT !.log = Append(@, [op |-> "exit",
                                     path |-> CoreFile(st.ctx, organ, j, 0),
                                     code |-> out.code])]

\* p.wait() for core j returns: the exit status is returned and dropped
Wait(st, ext, k, organ, j) ==
    [st EXCEPT !.log =
       Append(@, [op |-> "wait", path |-> CoreFile(st.ctx, organ, j, 0),
                  code |-> ProcOutcome(ext, k, j).code])]

\* the processes js terminate one after another
RECURSIVE ProcExits(_, _, _, _, _)
ProcExits(st, ext, k, organ, js) ==
    IF js = <<>> THEN st
    ELSE ProcExits(ProcExit(st, ext, k, organ, Head(js)), ext, k, organ,
                   Tail(js))

\* the parent's steps from step g on: "for j in range(self.num_cores):
\* Popen(...)" and then "for p in processes: p.wait()", each step followed
\* by the terminations the schedule puts after it
RECURSIVE CoreSteps(_, _, _, _, _, _)
CoreSteps(st, ext, k, organ, g, n) ==
    IF g > 2 * n THEN st
    ELSE LET s1 == IF g <= n THEN Popen(st, organ, g - 1)
                   ELSE Wait(st, ext, k, organ, g - n - 1)
             ended == SelectSeq(ext.sched.order,
                         LAMBDA j : /\ j < n
                                    /\ IF ext.sched.after[j] <= n + j
                                       THEN ext.sched.after[j] = g
                                       ELSE n + j = g)
         IN CoreSteps(ProcExits(s1, ext, k, organ, ended), ext, k, organ,
                       g + 1, n)

\* _run_simind_for_organ_cores: cores 0 .. n-1 launched, then waited for
run_simind_for_organ_cores(st, ext, k, organ, n) ==
    CoreSteps(st, ext, k, organ, 1, n)

\* np.fromfile(p): the file read, or the exception for a file that is absent
Fromfile(st, organ, p) ==
    IF ~Ok(st) THEN st
    ELSE IF ~Exists(st.disk, p)
    THEN Raise(st, "FileNotFoundError", "core_output", <<organ>>)
    ELSE [st EXCEPT !.log = Append(@, [op |-> "read", path |-> p])]

\* the per-core loop of _aggregate_core_totals_for_organ: the three files of
\* core j read, then removed in PRODUCTION mode
RECURSIVE AggregateCores(_, _, _, _)
AggregateCores(acc, organ, j, n) ==
    LET st == acc.st
        files == [w \in 1 .. 3 |-> CoreFile(st.ctx, organ, j, w)]
        read == Fromfile(Fromfile(Fromfile(st, organ, files[1]), organ,
                                  files[2]), organ, files[3])
        removed == RemoveFile(RemoveFile(RemoveFile(read, files[1]), files[2]),
                              files[3])
    IN IF j >= n \/ ~Ok(st) THEN acc
       ELSE IF ~Ok(read) THEN [acc EXCEPT !.st = read]
       ELSE AggregateCores(
              [st |-> IF st.ctx.mode = Some("PRODUCTION") THEN removed ELSE read,
               xtot |-> [w \in 1 .. 3 |-> acc.xtot[w] + st.disk[files[w]]]],
              organ, j + 1, n)

\* _aggregate_core_totals_for_organ
aggregate_core_totals_for_organ(st, organ, n) ==
    LET acc == AggregateCores([st |-> st, xtot |-> [w \in 1 .. 3 |-> 0]],
                              organ, 0, n)
        avg == [w \in 1 .. 3 |-> <<[num |-> acc.xtot[w], div |-> n]>>]
        s1 == WriteFile(acc.st, OrganTotal(st.ctx, organ, 1), avg[1])
        s2 == WriteFile(s1, OrganTotal(st.ctx, organ, 2), avg[2])
    IN IF ~Ok(acc.st) THEN acc.st
       ELSE WriteFile(s2, OrganTotal(st.ctx, organ, 3), avg[3])

\* activity_organ_sum[organ]
OrganSum(ctx, organ) ==
    LET sums == Val(ctx.activity_organ_sum)
    IN sums[CHOOSE j \in DOMAIN sums : sums[j].name = organ].sum

\* one pass of "for index, act_path in enumerate(organ_act_paths)"
SimindOrgan(st, ext, index) ==
    LET roi_list == Val(st.ctx.class_seg)
        act_path == Val(st.ctx.activity_map_paths_by_organ)[index]
        organ == roi_list[index].name
        n == NumCores(Val(st.ctx.config))
        s1 == WriteFile(st, Join(SimindWorkDir(st.ctx), act_path.file,
                                 act_path.key, act_path.i, act_path.w),
                        st.disk[act_path])
        s2 == run_simind_for_organ_cores(s1, ext, index, organ, n)
    IN IF ~Ok(st) THEN st
       ELSE IF index > Len(roi_list)
       THEN Raise(st, "IndexError", "roi_list", <<>>)
       ELSE IF organ_totals_exist(st, organ) /\ organ_headers_exist(st, organ)
       THEN st
       ELSE IF ~Exists(st.disk, act_path)
       THEN Raise(st, "FileNotFoundError", "input_missing", <<organ>>)
       ELSE aggregate_core_totals_for_organ(s2, organ, n)

RECURSIVE SimindOrgans(_, _, _)
SimindOrgans(st, ext, index) ==
    IF index > Len(Val(st.ctx.activity_map_paths_by_organ)) THEN st
    ELSE SimindOrgans(SimindOrgan(st, ext, index), ext, index + 1)

\* every frame weighted by the duration of the first frame
FrameTerms_FirstDuration(st, time_index, w) ==
    LET roi_list == Val(st.ctx.class_seg)
        cfg == Val(st.ctx.config)
    IN [j \in DOMAIN roi_list |->
          LET agg == st.disk[OrganTotal(st.ctx, roi_list[j].name, w)][1]
          IN [num |-> agg.num * OrganSum(st.ctx, roi_list[j].name)[time_index]
                              * cfg.FrameDurations[1],
              div |-> agg.div]]

\* the terms of one per-frame total: per organ, in roi_list order, the
\* aggregate on disk weighted by the organ's activity and the frame duration
FrameTerms(st, time_index, w) ==
    LET roi_list == Val(st.ctx.class_seg)
        cfg == Val(st.ctx.config)
    IN [j \in DOMAIN roi_list |->
          LET agg == st.disk[OrganTotal(st.ctx, roi_list[j].name, w)][1]
          IN [num |-> agg.num * OrganSum(st.ctx, roi_list[j].name)[time_index]
                              * cfg.FrameDurations[time_index],
              div |-> agg.div]]

\* _combine_organs_into_frame_totals
RECURSIVE combine_organs_into_frame_totals(_, _)
combine_organs_into_frame_totals(st, time_index) ==
    LET cfg == Val(st.ctx.config)
        t == cfg.FrameStartTimes[time_index]
        s1 == WriteFile(st, FrameTotal(st.ctx, t, 1), FrameTerms(st, time_index, 1))
        s2 == WriteFile(s1, FrameTotal(st.ctx, t, 2), FrameTerms(st, time_index, 2))
        s3 == WriteFile(s2, FrameTotal(st.ctx, t, 3), FrameTerms(st, time_index, 3))
    IN IF ~Ok(st) \/ time_index > Len(cfg.FrameStartTimes) THEN st
       ELSE IF time_index > Len(cfg.FrameDurations)
       THEN Raise(st, "IndexError", "frame_durations", <<>>)
       ELSE combine_organs_into_frame_totals(s3, time_index + 1)

\* the calibration run whether or not calib.res is there
run_jaszczak_calibration_Always(st, ext) ==
    LET s1 == WriteFile(st, JoinPlain(SimindDir(st.ctx), "jaszak.smc"),
                        [template |-> "jaszak.smc"])
        s2 == Call(s1, "simind", "calibration", CalibRes(st.ctx))
    IN IF ~Ok(st) THEN st
       ELSE IF ext.calib = "ok"
       THEN WriteFile(s2, CalibRes(st.ctx), [calib |-> TRUE])
       ELSE s2

\* _run_jaszczak_calibration
run_jaszczak_calibration(st, ext) ==
    LET s1 == WriteFile(st, JoinPlain(SimindDir(st.ctx), "jaszak.smc"),
                        [template |-> "jaszak.smc"])
        s2 == Call(s1, "simind", "calibration", CalibRes(st.ctx))
    IN IF ~Ok(st) \/ Exists(st.disk, CalibRes(st.ctx)) THEN st
       ELSE IF ext.calib = "ok"
       THEN WriteFile(s2, CalibRes(st.ctx), [calib |-> TRUE])
       ELSE s2

\* run() from the environment set-up on
SimindWork(st, ext) ==
    LET s1 == SimindSetup(st)
        atn_av_path == Val(st.ctx.atn_av_path)
        atn_work_path == JoinPlain(SimindWorkDir(st.ctx), atn_av_path.file)
        s2 == IF Exists(s1.disk, atn_work_path) THEN s1
              ELSE WriteFile(s1, atn_work_path, s1.disk[atn_av_path])
        s3 == SimindOrgans(s2, ext, 1)
        s4 == IF ~Ok(s3) \/ frame_totals_exist(s3) THEN s3
              ELSE combine_organs_into_frame_totals(s3, 1)
        s5 == run_jaszczak_calibration(s4, ext)
    IN IF IsNone(st.ctx.arr_shape_new)
       THEN Raise(s1, "TypeError", "none_subscript", <<"arr_shape_new">>)
       ELSE IF ~Ok(s5) THEN s5
       ELSE [s5 EXCEPT !.ctx.spect_sim_output_dir = Some(SimindDir(st.ctx))]

\* SimindSimulationStage(context).run()
SimindRun(st, ext) ==
    LET s1 == SimindInit(st)
        s2 == require(s1, <<"class_seg", "roi_body_seg_arr",
                            "activity_organ_sum", "activity_map_sum",
                            "arr_px_spacing_cm", "activity_map_paths_by_organ",
                            "atn_av_path">>)
    IN IF ~Ok(s1) THEN s1
       ELSE IF ~Ok(s2) THEN s2
       ELSE IF ~Exists(s2.disk, Val(s2.ctx.atn_av_path))
       THEN Raise(s2, "FileNotFoundError", "input_missing", <<"atn_av">>)
       ELSE SimindWork(s2, ext)

---------------------------------------------------------------------------
(***************************************************************************)
(* The inputs of the model: command lines, config files, phantoms          *)
(***************************************************************************)
\* the parsed command line (config_file and input_ct_dir aside)
ArgsSet ==
    {[logging_on |-> TRUE, save_ct_scan |-> FALSE, save_config |-> FALSE,
      mode |-> "PRODUCTION", synthetic_lesions |-> FALSE],
     [logging_on |-> TRUE, save_ct_scan |-> FALSE, save_config |-> FALSE,
      mode |-> "PRODUCTION", synthetic_lesions |-> TRUE],
     [logging_on |-> FALSE, save_ct_scan |-> TRUE, save_config |-> TRUE,
      mode |-> "DEBUG", synthetic_lesions |-> TRUE]}

\* one entry of config["synthetic_lesions"]["specs"]
LesionSpec(roi) ==
    [roi |-> roi, n_lesions |-> 1, radii_mm |-> <<1>>, prob |-> "uniform",
     sigma_mm |-> None, margin_mm |-> 0, user_centers_zyx |-> None]

\* a config file: the keys the stages read
Config(roi_subset, specs, VOIs, randomize) ==
    [roi_subset |-> roi_subset, xy_dim |-> None, specs |-> specs,
     VOIs |-> VOIs, FrameStartTimes |-> <<1, 2>>,
     FrameDurations |-> <<10, 20>>,
     Randomization_Kidney_SG_Para |-> randomize, NumCores |-> 2]

RoiList(list) == [str |-> FALSE, list |-> list]
RoiString(r) == [str |-> TRUE, list |-> <<r>>]

ConfigSet ==
    {Config(RoiList(<<"kidney">>), Some(<<LesionSpec("kidney")>>),
            <<"Kidney", "Rest">>, FALSE),
     Config(RoiList(<<"liver", " kidney ", "salivary_glands">>), None,
            <<"Kidney", "Liver", "SG", "Rest">>, TRUE),
     Config(RoiString("spleen"), Some(<<LesionSpec("spleen")>>),
            <<"Spleen", "Rest">>, FALSE),
     Config(RoiList(<<"kidney">>), Some(<<>>), <<"Kidney">>, FALSE),
     Config(RoiList(<<"kidney", "lung">>), None, <<"Kidney", "Rest">>, FALSE),
     Config(RoiList(<<" ">>), None, <<"Kidney", "Rest">>, FALSE)}

\* a volume of the given shape from its values in x-fastest order
VolOf(shape, values) ==
    [shape |-> shape,
     data |-> [c \in Coords(shape) |->
                 values[c[1] + shape[1] * (c[2] + shape[2] * c[3]) + 1]]]

\* what the converters and the segmenter make of a CT: the image in HU and
\* the three multilabel masks
Phantom(shape, ct, body, total, head) ==
    [ct |-> VolOf(shape, ct), body |-> VolOf(shape, body),
     total |-> VolOf(shape, total), head |-> VolOf(shape, head)]

\* kidney, spleen and liver side by side, a parotid gland on the liver voxel,
\* the liver voxel outside the body mask
PhantomSet == {Phantom(<<3, 1, 1>>, <<-10, 20, 0>>, <<1, 1, 0>>, <<3, 1, 5>>,
                       <<0, 0, 6>>)}

---------------------------------------------------------------------------
(***************************************************************************)
(* The batch driver: main() and TdtPipeline                                *)
(***************************************************************************)
VARIABLES
    dir,        \* os.listdir(input_ct_dir): the names of its entries
    args,       \* the parsed command line
    config,     \* the content of the config file
    ts,         \* what the converters and the segmenter produce
    pc,         \* where the driver is
    items,      \* the discovered CT items
    idx,        \* the loop index of main()
    ctx,        \* the context of the pipeline being run
    disk,       \* the output tree: path -> content
    calls,      \* the external tools the current pipeline has invoked
    log,        \* the file operations of the current pipeline
    err,        \* the exception that ended the last stage or constructor
    stdout,     \* the lines printed since the driver started
    outcomes,   \* how each pipeline of each driver run ended
    exitCode,   \* what main() returned
    runNo,      \* how many times the driver was started on this output tree
    kept,       \* the output tree as the previous driver run left it
    prev        \* context, tree, calls and log before the last stage

vars ==
    <<dir, args, config, ts, pc, items, idx, ctx, disk, calls, log, err,
      stdout, outcomes, exitCode, runNo, kept, prev>>

\* the empty output tree
NoFiles == [p \in {} |-> None]

Snapshot == [ctx |-> ctx, disk |-> disk, calls |-> calls, log |-> log]

\* a printed line: its text, the CT index, the stage and the input path it
\* reports, and the exception it prints
Line(text, i, stage, path, e) ==
    [line |-> text, idx |-> i, stage |-> stage, path |-> path, e |-> e]

\* the directories the model draws input_ct_dir from
DirSet(n) == {d \in SUBSET NameUniverse : Cardinality(d) <= n}

InitCommon(dirs, phantoms) ==
    /\ dir \in dirs
    /\ args \in ArgsSet
    /\ config \in ConfigSet
    /\ ts \in phantoms
    /\ pc = "start"
    /\ items = <<>>
    /\ idx = 0
    /\ ctx = EmptyContext
    /\ disk = NoFiles
    /\ calls = <<>>
    /\ log = <<>>
    /\ err = NoErr
    /\ stdout = <<>>
    /\ outcomes = <<>>
    /\ exitCode = None
    /\ runNo = 1
    /\ kept = NoFiles
    /\ prev = [ctx |-> EmptyContext, disk |-> NoFiles, calls |-> <<>>,
               log |-> <<>>]

Init == InitCommon(DirSet(MaxEntries), PhantomSet)

\* the sorted listing with its hidden entries kept
Discover_KeepHidden(d) == SortedNames(d)

\* items = [n for n in sorted(os.listdir(dir)) if not n.startswith(".")]
Discover(d) == SelectSeq(SortedNames(d), LAMBDA n : ~StartsWithDot(n))

\* main() up to the loop
MainStart ==
    /\ pc = "start"
    /\ items' = Discover(dir)
    /\ stdout' = Append(stdout, Line("Discovered CT item(s)", -1, "", <<>>,
                                    NoErr))
    /\ idx' = 0
    /\ pc' = IF Discover(dir) = <<>> THEN "exit" ELSE "construct"
    /\ UNCHANGED <<dir, args, config, ts, ctx, disk, calls, log, err, outcomes,
                   exitCode, runNo, kept, prev>>

\* _save_ct_input_copy
save_ct_input_copy(st, root, name) ==
    LET dst_root == Dir(root, "ct_input_copy")
        dst == JoinPlain(dst_root, "input")
        s1 == MakeDirs(st, dst_root)
    IN IF IsFile(name) THEN WriteFile(s1, dst, [input |-> name])
       ELSE IF Exists(s1.disk, dst) THEN s1
       ELSE WriteFile(s1, dst, [input |-> name])

\* the loop "for _, name in self.config['subdir_names'].items(): makedirs"
MakeSubdirs(st, root) ==
    MakeDirs(MakeDirs(MakeDirs(st, Dir(root, "spect_preprocessing")),
                      Dir(root, "pbpk")), Dir(root, "spect_simulation"))

\* _config_setup
config_setup(st, name, ct_indx, a) ==
    LET root == OutputRoot(ct_indx)
        s1 == MakeDirs(st, Dir(root, ""))
        s2 == IF a.save_ct_scan THEN save_ct_input_copy(s1, root, name) ELSE s1
        s3 == IF a.save_config
              THEN WriteFile(s2, InRoot(root, "config.json"), [config |-> TRUE])
              ELSE s2
    IN IF /\ IsFile(name)
          /\ ~EndsWith(Lower(name), <<".", "n", "i", "i">>)
          /\ ~EndsWith(Lower(name), <<".", "n", "i", "i", ".", "g", "z">>)
       THEN Raise(s1, "ValueError", "ct_input_extension", <<>>)
       ELSE IF ~IsFile(name) /\ ~IsDir(name)
       THEN Raise(s1, "FileNotFoundError", "ct_input", <<>>)
       ELSE MakeSubdirs(s3, root)

\* _log_setup: the log file is opened with mode "w"
log_setup(st, ct_indx, a, run) ==
    IF ~Ok(st) \/ ~a.logging_on THEN st
    ELSE WriteFile(st, Join(Dir(OutputRoot(ct_indx), ""),
                            "logging_file_CT.log", "", ct_indx, 0),
                   [started_in_run |-> run])

\* _context_setup
context_setup(st, name, ct_indx, a, cfg) ==
    IF ~Ok(st) THEN st
    ELSE [st EXCEPT !.ctx =
            [EmptyContext EXCEPT
               !.config = Some(cfg),
               !.mode = Some(a.mode),
               !.ct_input_path = Some(name),
               !.ct_input_type = Some(IF IsFile(name) THEN "nii" ELSE "dicom"),
               !.ct_indx = Some(ct_indx),
               !.output_folder_path = Some(OutputRoot(ct_indx)),
               !.subdir_paths =
                   Some([k \in SubdirKeys |-> Dir(OutputRoot(ct_indx), k)])]]

\* TdtPipeline.__init__
TdtPipeline(d, name, ct_indx, a, cfg, run) ==
    context_setup(
        log_setup(config_setup(St(EmptyContext, d, <<>>, <<>>), name, ct_indx, a),
                  ct_indx, a, run),
        name, ct_indx, a, cfg)

\* self.run_synthetic_lesions
run_synthetic_lesions(a, cfg) == a.synthetic_lesions /\ ~IsNone(cfg.specs)

\* the input path of the CT item the loop is at
CtPath == items[idx + 1]

\* the loop of main() moves on to the next item, or ends
NextItem ==
    /\ idx' = idx + 1
    /\ pc' = IF idx + 1 < Len(items) THEN "construct" ELSE "exit"

\* what "except Exception as e" prints
ErrorLine(e) == Line("[ERROR] CT index failed for input", idx, "", CtPath, e)

\* the pipeline of the current item ended: by an exception, by leaving run()
\* early, or by the return at the end of run()
Ended(how) == Append(outcomes, [run |-> runNo, idx |-> idx, how |-> how])

\* a constructor whose exception is not caught by the loop of main()
Construct_Uncaught ==
    /\ pc = "construct"
    /\ LET st == TdtPipeline(disk, CtPath, idx, args, config, runNo)
       IN /\ prev' = Snapshot
          /\ ctx' = st.ctx
          /\ disk' = st.disk
          /\ calls' = st.calls
          /\ log' = st.log
          /\ err' = st.err
          /\ IF Ok(st)
             THEN /\ stdout' = Append(stdout, Line("Starting TDT Pipeline", idx,
                                                   "", CtPath, NoErr))
                  /\ pc' = "seg"
                  /\ UNCHANGED <<idx, outcomes>>
             ELSE /\ stdout' = Append(stdout, ErrorLine(st.err))
                  /\ outcomes' = Ended("failed")
                  /\ idx' = idx + 1
                  /\ pc' = "exit"
    /\ UNCHANGED <<dir, args, config, ts, items, exitCode, runNo, kept>>

\* pipeline = TdtPipeline(...), and run() up to its first stage
Construct ==
    /\ pc = "construct"
    /\ LET st == TdtPipeline(disk, CtPath, idx, args, config, runNo)
       IN /\ prev' = Snapshot
          /\ ctx' = st.ctx
          /\ disk' = st.disk
          /\ calls' = st.calls
          /\ log' = st.log
          /\ err' = st.err
          /\ IF Ok(st)
             THEN /\ stdout' = Append(stdout, Line("Starting TDT Pipeline", idx,
                                                   "", CtPath, NoErr))
                  /\ pc' = "seg"
                  /\ UNCHANGED <<idx, outcomes>>
             ELSE /\ stdout' = Append(stdout, ErrorLine(st.err))
                  /\ outcomes' = Ended("failed")
                  /\ NextItem
    /\ UNCHANGED <<dir, args, config, ts, items, exitCode, runNo, kept>>

\* a stage whose exception is reported but does not end run()
Stage_Continue(name, st, nextpc) ==
    /\ prev' = Snapshot
    /\ ctx' = st.ctx
    /\ disk' = st.disk
    /\ calls' = st.calls
    /\ log' = st.log
    /\ err' = st.err
    /\ stdout' = stdout \o
                 <<Line("Running Stage", idx, name, <<>>, NoErr),
                   IF Ok(st) THEN Line("Stage completed", idx, name, <<>>, NoErr)
                   ELSE ErrorLine(st.err)>>
    /\ pc' = nextpc
    /\ UNCHANGED <<idx, outcomes>>
    /\ UNCHANGED <<dir, args, config, ts, items, exitCode, runNo, kept>>

\* one stage of run(): announced, run on the context, and either reported
\* completed or ended by the exception that main() catches
Stage(name, st, nextpc) ==
    /\ prev' = Snapshot
    /\ ctx' = st.ctx
    /\ disk' = st.disk
    /\ calls' = st.calls
    /\ log' = st.log
    /\ err' = st.err
    /\ IF Ok(st)
       THEN /\ stdout' = stdout \o
                         <<Line("Running Stage", idx, name, <<>>, NoErr),
                           Line("Stage completed", idx, name, <<>>, NoErr)>>
            /\ pc' = nextpc
            /\ UNCHANGED <<idx, outcomes>>
       ELSE /\ stdout' = stdout \o
                         <<Line("Running Stage", idx, name, <<>>, NoErr),
                           ErrorLine(st.err)>>
            /\ outcomes' = Ended("failed")
            /\ NextItem
    /\ UNCHANGED <<dir, args, config, ts, items, exitCode, runNo, kept>>

Current == St(ctx, disk, calls, log)

\* Stage 1
RunSegmentation ==
    /\ pc = "seg"
    /\ \E ext \in SegExt :
         Stage("TotalSegmentator", SegRun(Current, ext, ts), "unify")

\* Stage 2
RunUnify ==
    /\ pc = "unify"
    /\ Stage("TDT ROI Unification", UnifyRun(Current),
             IF run_synthetic_lesions(args, config) THEN "lesions" ELSE "pre")

\* header.get_zooms() of the volumes made from the CT, (x, y, z)
HeaderZooms(t) == IF "zooms" \in DOMAIN t THEN t.zooms ELSE ZoomsMm

\* Stage 2.5
RunLesions ==
    /\ pc = "lesions"
    /\ \E draws \in LesionPicks(Current) :
         Stage("Synthetic Lesions Generation",
               LesionsRun(Current, [draws |-> draws, zooms |-> HeaderZooms(ts)]),
               "pre")

\* Stage 3
RunPreprocess ==
    /\ pc = "pre"
    /\ Stage("SIMIND Preprocessing", PreRun(Current), "pbpk")

\* Stage 4
RunPbpk ==
    /\ pc = "pbpk"
    /\ \E ext \in PbpkExt : Stage("PBPK", PbpkRun(Current, ext), "break")

\* the statement after the PBPK stage: control leaves the stage sequence;
\* neither the SIMIND stage nor the reconstruction stage is started and the
\* success line is not printed
Break ==
    /\ pc = "break"
    /\ outcomes' = Ended("returned")
    /\ NextItem
    /\ UNCHANGED <<dir, args, config, ts, items, ctx, disk, calls, log, err,
                   stdout, exitCode, runNo, kept, prev>>

\* return 0
Return0 ==
    /\ pc = "exit"
    /\ exitCode' = Some(0)
    /\ pc' = "done"
    /\ UNCHANGED <<dir, args, config, ts, items, idx, ctx, disk, calls, log,
                   err, stdout, outcomes, runNo, kept, prev>>

Next ==
    \/ MainStart
    \/ Construct
    \/ RunSegmentation
    \/ RunUnify
    \/ RunLesions
    \/ RunPreprocess
    \/ RunPbpk
    \/ Break
    \/ Return0

Spec == Init /\ [][Next]_vars

---------------------------------------------------------------------------
(***************************************************************************)
(* The driver started again on the output tree it left                     *)
(***************************************************************************)
\* python main.py ... once more on the output tree the previous run left:
\* same command line, same input directory, the config file holding cfg
Resume(cfg) ==
    /\ pc = "done"
    /\ config' = cfg
    /\ runNo' = runNo + 1
    /\ kept' = disk
    /\ pc' = "start"
    /\ items' = <<>>
    /\ idx' = 0
    /\ ctx' = EmptyContext
    /\ calls' = <<>>
    /\ log' = <<>>
    /\ err' = NoErr
    /\ stdout' = <<>>
    /\ exitCode' = None
    /\ prev' = [ctx |-> EmptyContext, disk |-> disk, calls |-> <<>>,
                log |-> <<>>]
    /\ UNCHANGED <<dir, args, ts, disk, outcomes>>

Restart ==
    /\ runNo < MaxDriverRuns
    /\ Resume(config)

InitResume == InitCommon(DirSet(MaxRerunEntries), PhantomSet)

NextResume == Next \/ Restart

SpecResume == InitResume /\ [][NextResume]_vars

---------------------------------------------------------------------------
(***************************************************************************)
(* A stage constructed and run on a context some field of which is null    *)
(***************************************************************************)
\* the context fields a stage takes from earlier stages whatever the plan
UnifyReads == {"ct_nii_path", "body_ml_path", "totseg_plan"}
PbpkReads == {"roi_body_seg_arr", "mask_roi_body", "class_seg",
              "arr_px_spacing_cm"}
SimindReads == {"class_seg", "arr_shape_new", "activity_organ_sum",
                "activity_map_sum", "arr_px_spacing_cm",
                "activity_map_paths_by_organ", "atn_av_path"}

\* the context c with field f null; "" leaves it as it is
Nulled(c, f) == IF f = "" THEN c ELSE [c EXCEPT ![f] = None]

\* X(context).run() called on the context c0 in place of the driver's next
\* stage; st is what the call leaves
Invoke(name, at, c0, st) ==
    /\ pc = at
    /\ prev' = [ctx |-> c0, disk |-> disk, calls |-> calls, log |-> log]
    /\ ctx' = st.ctx
    /\ disk' = st.disk
    /\ calls' = st.calls
    /\ log' = st.log
    /\ err' = st.err
    /\ stdout' = stdout \o
                 <<Line("Running Stage", idx, name, <<>>, NoErr),
                   IF Ok(st) THEN Line("Stage completed", idx, name, <<>>, NoErr)
                   ELSE ErrorLine(st.err)>>
    /\ outcomes' = Ended("invoked")
    /\ idx' = Len(items)
    /\ pc' = "exit"
    /\ UNCHANGED <<dir, args, config, ts, items, exitCode, runNo, kept>>

InvokeUnify ==
    /\ pc = "unify"
    /\ \E f \in UnifyReads :
        Invoke("TDT ROI Unification", "unify", Nulled(ctx, f),
               UnifyRun(St(Nulled(ctx, f), disk, calls, log)))

InvokePbpk ==
    /\ pc = "pbpk"
    /\ \E f \in PbpkReads : \E ext \in PbpkExt :
        Invoke("PBPK", "pbpk", Nulled(ctx, f),
               PbpkRun(St(Nulled(ctx, f), disk, calls, log), ext))

InvokeSimind ==
    /\ pc = "break"
    /\ \E f \in SimindReads \cup {""} :
       \E ext \in SimindExt(Val(ctx.class_seg)) :
        Invoke("SIMIND Simulation", "break", Nulled(ctx, f),
               SimindRun(St(Nulled(ctx, f), disk, calls, log), ext))

InitStage == InitCommon(DirSet(MaxStageEntries), PhantomSet)

NextStage == Next \/ InvokeUnify \/ InvokePbpk \/ InvokeSimind

SpecStage == InitStage /\ [][NextStage]_vars

---------------------------------------------------------------------------
(***************************************************************************)
(* The simulation stage run, and run again, on the tree the driver built   *)
(***************************************************************************)
\* the runs of the simulation stage on one output tree, at most
MaxSimindRuns == 2

\* the runs of the simulation stage so far
SimindRuns ==
    Cardinality({k \in DOMAIN stdout :
                    /\ stdout[k].line = "Running Stage"
                    /\ stdout[k].stage = "SIMIND Simulation"})

\* what the simulator does in one of these runs: at most one process that
\* exits with an error and leaves nothing, the processes terminating in
\* launch order
RerunExt(class_seg) ==
    {e \in SimindExt(class_seg) :
        /\ e.sched = LaunchOrder(CpuCount)
        /\ \A i \in DOMAIN e.faults :
              /\ i = 1
              /\ e.faults[i].code = 1
              /\ e.faults[i].missing = {0, 1, 2, 3}}

\* the stage run in place of the driver's break; st is what the call leaves
Rerun(name, st) ==
    /\ prev' = [ctx |-> ctx, disk |-> disk, calls |-> calls, log |-> log]
    /\ ctx' = st.ctx
    /\ disk' = st.disk
    /\ calls' = st.calls
    /\ log' = st.log
    /\ err' = st.err
    /\ stdout' = stdout \o
                 <<Line("Running Stage", idx, name, <<>>, NoErr),
                   IF Ok(st) THEN Line("Stage completed", idx, name, <<>>, NoErr)
                   ELSE ErrorLine(st.err)>>
    /\ pc' = "break"
    /\ UNCHANGED <<dir, args, config, ts, items, idx, outcomes, exitCode,
                   runNo, kept>>

\* SimindSimulationStage(context).run() on the context and the tree the
\* stages before it left, once more after each run
RunSimind ==
    /\ pc \in {"break", "tampered"}
    /\ SimindRuns < MaxSimindRuns
    /\ \E ext \in RerunExt(Val(ctx.class_seg)) :
         Rerun("SIMIND Simulation", SimindRun(Current, ext))

\* the outputs of the stage somebody may remove between two runs
TamperFiles ==
    {CalibRes(ctx), FrameTotal(ctx, Val(ctx.config).FrameStartTimes[1], 3)}
    \cup UNION {{OrganTotal(ctx, Val(ctx.class_seg)[k].name, 1),
                 CoreHeader(ctx, Val(ctx.class_seg)[k].name)} :
                   k \in DOMAIN Val(ctx.class_seg)}

\* one output removed between two runs of the stage
Tamper ==
    /\ pc = "break"
    /\ SimindRuns >= 1
    /\ SimindRuns < MaxSimindRuns
    /\ \E p \in TamperFiles \cap DOMAIN disk : disk' = Remove(disk, p)
    /\ pc' = "tampered"
    /\ UNCHANGED <<dir, args, config, ts, items, idx, ctx, calls, log, err,
                   stdout, outcomes, exitCode, runNo, kept, prev>>

\* kidney requested, with a lesion in it when lesions are switched on
SimindConfigSet ==
    {Config(RoiList(<<"kidney">>), Some(<<LesionSpec("kidney")>>),
            <<"Kidney", "Rest">>, FALSE)}

InitSimind ==
    /\ dir = {NameNii}
    /\ args \in ArgsSet
    /\ config \in SimindConfigSet
    /\ ts \in PhantomSet
    /\ pc = "start"
    /\ items = <<>>
    /\ idx = 0
    /\ ctx = EmptyContext
    /\ disk = NoFiles
    /\ calls = <<>>
    /\ log = <<>>
    /\ err = NoErr
    /\ stdout = <<>>
    /\ outcomes = <<>>
    /\ exitCode = None
    /\ runNo = 1
    /\ kept = NoFiles
    /\ prev = [ctx |-> EmptyContext, disk |-> NoFiles, calls |-> <<>>,
               log |-> <<>>]

NextSimind == Next \/ RunSimind \/ Tamper

SpecSimind == InitSimind /\ [][NextSimind]_vars

---------------------------------------------------------------------------
(***************************************************************************)
(* The simulation stage with its child processes terminating in any order  *)
(***************************************************************************)
\* what the simulator does in the run: the processes of an organ terminate
\* in any order, and at most one process of the run misbehaves
CoresExt(class_seg) ==
    {e \in SimindExt(class_seg) : Len(e.faults) <= 1}

\* SimindSimulationStage(context).run() in place of the driver's break
RunCores ==
    /\ pc = "break"
    /\ \E ext \in CoresExt(Val(ctx.class_seg)) :
         Invoke("SIMIND Simulation", "break", ctx, SimindRun(Current, ext))

NextCores == Next \/ RunCores

SpecCores == InitSimind /\ [][NextCores]_vars

---------------------------------------------------------------------------
(***************************************************************************)
(* The reconstruction stage on the tree the simulation stage left          *)
(***************************************************************************)
\* the runs of the reconstruction stage on one output tree, at most
MaxReconRuns == 2

\* the runs of the reconstruction stage so far
ReconRuns ==
    Cardinality({k \in DOMAIN stdout :
                    /\ stdout[k].line = "Running Stage"
                    /\ stdout[k].stage = "SPECT Reconstruction"})

\* setattr(context, name, v), name being no attribute set by Context.__init__
SetAttr(c, name, v) ==
    [f \in DOMAIN c \cup {name} |-> IF f = name THEN v ELSE c[f]]

\* self.output_dir: context.spect_sim_output_dir, else the directory joined
\* from the folder title and the subdirectory name of the config
ReconOutputDir(c) ==
    IF ~IsNone(c.spect_sim_output_dir) THEN Val(c.spect_sim_output_dir)
    ELSE Dir(Title, "spect_simulation")

\* self.header_dir: context.extras["simind_work_dir"], which the simulation
\* stage sets together with spect_sim_output_dir, else self.output_dir
ReconHeaderDir(c) ==
    IF ~IsNone(c.spect_sim_output_dir) THEN SimindWorkDir(c)
    ELSE ReconOutputDir(c)

ReconPath(d, t) == Join(d, "min.nii", "", t, 0)
ReconAtnPath(d) == JoinPlain(d, "atn_img.nii")

\* self.frame_duration of __init__
ReconFrameDuration(cfg) == cfg.FrameDurations[1]

\* _get_recon_img: the image reconstructed from the projections, divided by
\* the sensitivity and by frame_duration * 60
get_recon_img(cfg, projections) ==
    [projections |-> projections, sensitivity |-> TRUE,
     frame_duration |-> ReconFrameDuration(cfg) * 60]

\* the loop of run() over self.frame_start, from the frame at place k on
RECURSIVE ReconFrames(_, _, _)
ReconFrames(st, cfg, k) ==
    LET output_dir == ReconOutputDir(st.ctx)
        time == cfg.FrameStartTimes[k]
        a00 == [w \in 1 .. 3 |-> Join(output_dir, "min_tot.a00", "", time, w)]
        read == [st EXCEPT !.log = @ \o [w \in 1 .. 3 |->
                                           [op |-> "read", path |-> a00[w]]]]
    IN IF ~Ok(st) \/ k > Len(cfg.FrameStartTimes) THEN st
       ELSE IF Exists(st.disk, ReconPath(output_dir, time))
       THEN ReconFrames(st, cfg, k + 1)
       ELSE IF \E w \in 1 .. 3 : ~Exists(st.disk, a00[w])
       THEN Raise(st, "FileNotFoundError", "projection", <<>>)
       ELSE ReconFrames(WriteFile(read, ReconPath(output_dir, time),
                                  get_recon_img(cfg, st.disk[a00[2]])),
                        cfg, k + 1)

\* _write_recon_atn_img
write_recon_atn_img(st) ==
    LET p == ReconAtnPath(ReconOutputDir(st.ctx))
    IN IF Exists(st.disk, p) THEN st ELSE WriteFile(st, p, [amap |-> TRUE])

\* SpectReconstructionStage(config, context).run(): the headers of core 0 of
\* the first organ (.h00 of the three windows, .cor, .hct), which one
\* simulator process leaves together, are the one file CoreHeader
ReconRun(st) ==
    LET cfg == Val(st.ctx.config)
        output_dir == ReconOutputDir(st.ctx)
        s1 == MakeDirs(st, output_dir)
        s2 == require(s1, <<"class_seg">>)
        roi0 == Val(st.ctx.class_seg)[1].name
        header == Join(ReconHeaderDir(st.ctx), "tot.h00", roi0, 0, 2)
        s3 == ReconFrames(s2, cfg, 1)
        s4 == write_recon_atn_img(s3)
        paths == [k \in DOMAIN cfg.FrameStartTimes |->
                    ReconPath(output_dir, cfg.FrameStartTimes[k])]
    IN IF IsNone(st.ctx.config)
       THEN Raise(st, "TypeError", "none_subscript", <<"config">>)
       ELSE IF cfg.FrameDurations = <<>>
       THEN Raise(st, "IndexError", "frame_durations", <<>>)
       ELSE IF ~Ok(s2) THEN s2
       ELSE IF ~Exists(s2.disk, JoinPlain(output_dir, "calib.res"))
       THEN Raise(s2, "FileNotFoundError", "calibration", <<>>)
       ELSE IF ~Exists(s2.disk, header)
       THEN Raise(s2, "FileNotFoundError", "header", <<roi0>>)
       ELSE IF ~Ok(s3) THEN s3
       ELSE [s4 EXCEPT !.ctx =
               SetAttr(SetAttr(SetAttr([@ EXCEPT !.spect_sim_output_dir =
                                                    Some(output_dir)],
                                       "recon_paths", Some(paths)),
                               "recon_atn_img", Some([amap |-> TRUE])),
                       "recon_atn_path", Some(ReconAtnPath(output_dir)))]

\* the reconstruction stage run on the context and the tree the simulation
\* stage left, and run again
RunRecon ==
    /\ pc = "break"
    /\ SimindRuns >= 1
    /\ ReconRuns < MaxReconRuns
    /\ Rerun("SPECT Reconstruction", ReconRun(Current))

NextRecon == Next \/ RunSimind \/ RunRecon

SpecRecon == InitSimind /\ [][NextRecon]_vars

---------------------------------------------------------------------------
(***************************************************************************)
(* The simulation stage run again after the PBPK stage was run again       *)
(***************************************************************************)
\* the runs of the PBPK stage on one output tree, at most
MaxPbpkRuns == 2

\* the runs of the PBPK stage so far
PbpkRuns ==
    Cardinality({k \in DOMAIN stdout :
                    /\ stdout[k].line = "Running Stage"
                    /\ stdout[k].stage = "PBPK"})

\* PbpkStage(context).run() once more, on the context and the tree of a
\* pipeline whose simulation stage has run: the sampler draws again
RerunPbpk ==
    /\ pc = "break"
    /\ SimindRuns >= 1
    /\ PbpkRuns < MaxPbpkRuns
    /\ \E ext \in PbpkExt : Rerun("PBPK", PbpkRun(Current, ext))

\* kidney requested, with a lesion in it when lesions are switched on, the
\* kidney and salivary-gland parameters randomized
RefreshConfigSet ==
    {Config(RoiList(<<"kidney">>), Some(<<LesionSpec("kidney")>>),
            <<"Kidney", "Rest">>, TRUE)}

InitRefresh ==
    /\ dir = {NameNii}
    /\ args \in ArgsSet
    /\ config \in RefreshConfigSet
    /\ ts \in PhantomSet
    /\ pc = "start"
    /\ items = <<>>
    /\ idx = 0
    /\ ctx = EmptyContext
    /\ disk = NoFiles
    /\ calls = <<>>
    /\ log = <<>>
    /\ err = NoErr
    /\ stdout = <<>>
    /\ outcomes = <<>>
    /\ exitCode = None
    /\ runNo = 1
    /\ kept = NoFiles
    /\ prev = [ctx |-> EmptyContext, disk |-> NoFiles, calls |-> <<>>,
               log |-> <<>>]

NextRefresh == Next \/ RunSimind \/ Tamper \/ RerunPbpk

SpecRefresh == InitRefresh /\ [][NextRefresh]_vars

---------------------------------------------------------------------------
(***************************************************************************)
(* The segmentation stage run again and again on one output tree           *)
(***************************************************************************)
\* TotalSegmentationStage(context).run() on the context the constructor left
InvokeSegmentation ==
    /\ pc = "seg"
    /\ \E ext \in SegExt :
         Invoke("TotalSegmentator", "seg", ctx, SegRun(Current, ext, ts))

\* the config file edited between two runs
Reconfigure ==
    /\ runNo < MaxSegRuns
    /\ \E cfg \in ConfigSet : Resume(cfg)

InitSeg == InitCommon(DirSet(MaxStageEntries), PhantomSet)

NextSeg ==
    \/ MainStart
    \/ Construct
    \/ InvokeSegmentation
    \/ Return0
    \/ Reconfigure

SpecSeg == InitSeg /\ [][NextSeg]_vars

---------------------------------------------------------------------------
(***************************************************************************)
(* The segmentation stage on every request of known ROI names              *)
(***************************************************************************)
\* the longest roi_subset of the requests below
MaxRois == 3

\* config["spect_preprocessing"]["roi_subset"]: every list of one to MaxRois
\* known names, repeats included, and every known name as a bare string
RoiRequests ==
    {RoiList(l) : l \in UNION {[1..n -> TDT_ALLOWED_ROIS] : n \in 1..MaxRois}}
    \cup {RoiString(r) : r \in TDT_ALLOWED_ROIS}

PlanConfigSet ==
    {Config(r, None, <<"Kidney", "Rest">>, FALSE) : r \in RoiRequests}

InitPlan ==
    /\ dir = {NameNii}
    /\ args \in ArgsSet
    /\ config \in PlanConfigSet
    /\ ts \in PhantomSet
    /\ pc = "start"
    /\ items = <<>>
    /\ idx = 0
    /\ ctx = EmptyContext
    /\ disk = NoFiles
    /\ calls = <<>>
    /\ log = <<>>
    /\ err = NoErr
    /\ stdout = <<>>
    /\ outcomes = <<>>
    /\ exitCode = None
    /\ runNo = 1
    /\ kept = NoFiles
    /\ prev = [ctx |-> EmptyContext, disk |-> NoFiles, calls |-> <<>>,
               log |-> <<>>]

NextPlan ==
    \/ MainStart
    \/ Construct
    \/ InvokeSegmentation
    \/ Return0

SpecPlan == InitPlan /\ [][NextPlan]_vars

---------------------------------------------------------------------------
(***************************************************************************)
(* The driver on CTs whose masks hold other labels too                     *)
(***************************************************************************)
\* the phantom with its middle voxel given any mix of body, total-task and
\* head-task labels, among them labels no ROI of the pipeline expands to
WidePhantomSet ==
    {Phantom(<<3, 1, 1>>, <<-10, 20, 0>>, <<1, b, 0>>, <<3, t, 5>>,
             <<0, h, 6>>) :
        <<b, t, h>> \in {0, 2} \X {0, 2, 5, 51, 99} \X {0, 7, 99}}

\* one CT, a NIfTI file or a DICOM folder next to a hidden entry
UnifyDirs == {{NameNii}, {NameHidden, NameDicomDir}}

InitUnify == InitCommon(UnifyDirs, WidePhantomSet)

SpecUnify == InitUnify /\ [][Next]_vars

---------------------------------------------------------------------------
(***************************************************************************)
(* The driver on CTs whose task masks come out with other shapes           *)
(***************************************************************************)
\* the shapes a mask of the three-voxel phantom can come out with
MaskShapes == {<<3, 1, 1>>, <<1, 3, 1>>, <<2, 1, 1>>}

\* the phantom with its total-task and head-task masks of any of the shapes
ShapePhantomSet ==
    {[ct |-> VolOf(<<3, 1, 1>>, <<-10, 20, 0>>),
      body |-> VolOf(<<3, 1, 1>>, <<1, 1, 0>>),
      total |-> VolOf(st, <<3, 1, 5>>),
      head |-> VolOf(sh, <<0, 0, 6>>)] : <<st, sh>> \in MaskShapes \X MaskShapes}

InitShape == InitCommon(UnifyDirs, ShapePhantomSet)

SpecShape == InitShape /\ [][Next]_vars

---------------------------------------------------------------------------
(***************************************************************************)
(* The driver on a CT with room for lesions                                *)
(***************************************************************************)
\* a 4 x 2 x 1 CT with voxels of 1 x 2 x 3 mm or 1 x 3 x 3 mm: a kidney of
\* 3 x 2 voxels, one liver voxel beside it, one voxel outside the body
LesionPhantomSet ==
    {[ct |-> VolOf(<<4, 2, 1>>, <<20, 20, 20, 30, 20, 20, 20, -900>>),
      body |-> VolOf(<<4, 2, 1>>, <<1, 1, 1, 1, 1, 1, 1, 0>>),
      total |-> VolOf(<<4, 2, 1>>, <<3, 3, 2, 5, 3, 2, 3, 0>>),
      head |-> VolOf(<<4, 2, 1>>, <<0, 0, 0, 0, 0, 0, 0, 0>>),
      zooms |-> <<1, sy, 3>>] : sy \in {2, 3}}

\* one entry of specs with sampled centres
Sampled(roi, radii, prob, sigma, margin) ==
    [roi |-> roi, n_lesions |-> Len(radii), radii_mm |-> radii, prob |-> prob,
     sigma_mm |-> sigma, margin_mm |-> margin, user_centers_zyx |-> None]

\* one entry of specs with the centres (Z,Y,X) given
UserDefined(roi, radii, margin, centers) ==
    [roi |-> roi, n_lesions |-> Len(radii), radii_mm |-> radii,
     prob |-> "user_defined", sigma_mm |-> None, margin_mm |-> margin,
     user_centers_zyx |-> Some(centers)]

\* config["synthetic_lesions"]["specs"]: two lesions in the kidney with and
\* without a margin, sampled or given; centres outside the kidney, at its
\* boundary, on top of each other, and counted from the end of an axis; a
\* liver entry after the kidney entry that cannot be placed
LesionSpecsSet ==
    {<<Sampled("kidney", <<1, 1>>, "uniform", None, 0)>>,
     <<Sampled("kidney", <<1, 1>>, "gaussian", Some(2), 1)>>,
     <<Sampled("kidney", <<1, 2>>, "uniform", None, 0),
       Sampled("liver", <<1>>, "uniform", None, 0)>>,
     <<Sampled("kidney", <<1>>, "uniform", None, 0),
       Sampled("liver", <<1>>, "uniform", None, 1)>>,
     <<UserDefined("kidney", <<1, 1>>, 0, <<<<0, 0, 0>>, <<0, 1, 0>>>>)>>,
     <<UserDefined("kidney", <<1, 1>>, 0, <<<<0, 0, 0>>, <<0, 0, 1>>>>)>>,
     <<UserDefined("kidney", <<1>>, 0, <<<<0, 0, 3>>>>)>>,
     <<UserDefined("kidney", <<1>>, 1, <<<<0, 1, 2>>>>)>>,
     <<UserDefined("kidney", <<1>>, 0, <<<<0, 0, -2>>>>)>>}

LesionConfigSet ==
    {Config(RoiList(<<"kidney", "liver">>), Some(specs),
            <<"Kidney", "Liver", "Rest">>, FALSE) : specs \in LesionSpecsSet}

InitLesions ==
    /\ dir = {NameNii}
    /\ args \in ArgsSet
    /\ config \in LesionConfigSet
    /\ ts \in LesionPhantomSet
    /\ pc = "start"
    /\ items = <<>>
    /\ idx = 0
    /\ ctx = EmptyContext
    /\ disk = NoFiles
    /\ calls = <<>>
    /\ log = <<>>
    /\ err = NoErr
    /\ stdout = <<>>
    /\ outcomes = <<>>
    /\ exitCode = None
    /\ runNo = 1
    /\ kept = NoFiles
    /\ prev = [ctx |-> EmptyContext, disk |-> NoFiles, calls |-> <<>>,
               log |-> <<>>]

SpecLesions == InitLesions /\ [][Next]_vars

\* config["pbpk"]["VOIs"]: every observable of the two organs, the liver
\* left out, Rest left out, and the kidney alone
VoiListSet ==
    {<<"Kidney", "Liver", "Rest">>, <<"Kidney", "Rest">>,
     <<"Kidney", "Liver">>, <<"Kidney">>}

\* kidney and liver requested, with and without a lesion in the kidney
VoiConfigSet ==
    {Config(RoiList(<<"kidney", "liver">>), specs, VOIs, randomize) :
        specs \in {None, Some(<<Sampled("kidney", <<1>>, "uniform", None, 0)>>)},
        VOIs \in VoiListSet, randomize \in BOOLEAN}

InitVoi ==
    /\ dir = {NameNii}
    /\ args \in ArgsSet
    /\ config \in VoiConfigSet
    /\ ts \in LesionPhantomSet
    /\ pc = "start"
    /\ items = <<>>
    /\ idx = 0
    /\ ctx = EmptyContext
    /\ disk = NoFiles
    /\ calls = <<>>
    /\ log = <<>>
    /\ err = NoErr
    /\ stdout = <<>>
    /\ outcomes = <<>>
    /\ exitCode = None
    /\ runNo = 1
    /\ kept = NoFiles
    /\ prev = [ctx |-> EmptyContext, disk |-> NoFiles, calls |-> <<>>,
               log |-> <<>>]

SpecVoi == InitVoi /\ [][Next]_vars

---------------------------------------------------------------------------
(***************************************************************************)
(* Context.require called on a context, with the names in args.names       *)
(***************************************************************************)
\* the names given in one call, at most
MaxNames == 3

\* names of fields, of a method, and a name that is no attribute
RequireNames == {"class_seg", "atn_av_path", "require", "no_such_field"}

\* the argument lists of the call
RequireArgs ==
    [names : UNION {[1 .. n -> RequireNames] : n \in 0 .. MaxNames}]

\* contexts with any of three fields set
RequireContexts ==
    {[EmptyContext EXCEPT
         !.class_seg = IF "class_seg" \in S
                       THEN Some(<<[name |-> "kidney", id |-> 1]>>) ELSE None,
         !.atn_av_path = IF "atn_av_path" \in S
                         THEN Some(JoinPlain(Dir(1, "pre"), "atn_av.bin"))
                         ELSE None,
         !.mode = IF "mode" \in S THEN Some("DEBUG") ELSE None] :
       S \in SUBSET {"class_seg", "atn_av_path", "mode"}}

InitRequire ==
    /\ dir = {}
    /\ args \in RequireArgs
    /\ config \in SimindConfigSet
    /\ ts \in PhantomSet
    /\ pc = "require"
    /\ items = <<>>
    /\ idx = 0
    /\ ctx \in RequireContexts
    /\ disk = NoFiles
    /\ calls = <<>>
    /\ log = <<>>
    /\ err = NoErr
    /\ stdout = <<>>
    /\ outcomes = <<>>
    /\ exitCode = None
    /\ runNo = 1
    /\ kept = NoFiles
    /\ prev = [ctx |-> EmptyContext, disk |-> NoFiles, calls |-> <<>>,
               log |-> <<>>]

\* what context.require(*args.names) leaves
Required(st) ==
    /\ prev' = [ctx |-> ctx, disk |-> disk, calls |-> calls, log |-> log]
    /\ ctx' = st.ctx
    /\ disk' = st.disk
    /\ calls' = st.calls
    /\ log' = st.log
    /\ err' = st.err
    /\ pc' = "required"
    /\ UNCHANGED <<dir, args, config, ts, items, idx, stdout, outcomes,
                   exitCode, runNo, kept>>

CallRequire ==
    /\ pc = "require"
    /\ Required(require(Current, args.names))

NextRequire == CallRequire

SpecRequire == InitRequire /\ [][NextRequire]_vars

---------------------------------------------------------------------------
(***************************************************************************)
(* Properties of the batch driver                                          *)
(***************************************************************************)
\* the driver is inside run() of the current pipeline
StagePcs == {"seg", "unify", "lesions", "pre", "pbpk", "break"}

IsErrorLine(l) == l.line = "[ERROR] CT index failed for input"

\* the stages started for CT i, in the order they were announced
StagesStarted(i) ==
    LET started == SelectSeq(stdout, LAMBDA l : l.line = "Running Stage"
                                                /\ l.idx = i)
    IN [k \in DOMAIN started |-> started[k].stage]

\* the stage sequence of run() for the current command line and config
FullSequence ==
    <<"TotalSegmentator", "TDT ROI Unification">>
    \o (IF run_synthetic_lesions(args, config)
        THEN <<"Synthetic Lesions Generation">> ELSE <<>>)
    \o <<"SIMIND Preprocessing", "PBPK", "SIMIND Simulation",
         "SPECT Reconstruction">>

\* the pipeline whose step was the last to touch context or tree
Owner == IF pc \in StagePcs THEN idx ELSE outcomes[Len(outcomes)].idx

\* C1: every pipeline whose run() ends without raising has started the
\* stages of the full sequence segmentation, unification, lesions (when
\* enabled), preprocessing, PBPK, SIMIND, reconstruction, each once, in order.
C1_RunExecutesFullSequence ==
    \A k \in DOMAIN outcomes :
        outcomes[k].how # "failed" =>
            StagesStarted(outcomes[k].idx) = FullSequence

\* C2: when a stage raises, the driver prints the failure with the index and
\* the input path of that CT, no later line of output belongs to that CT (no
\* later stage of it is started), and no stage of it is pending.
C2_StageFailureEndsPipeline ==
    /\ \A k \in DOMAIN stdout :
         stdout[k].line = "Running Stage" =>
           /\ k < Len(stdout)
           /\ stdout[k + 1].idx = stdout[k].idx
           /\ \/ stdout[k + 1].line = "Stage completed"
                 /\ stdout[k + 1].stage = stdout[k].stage
              \/ IsErrorLine(stdout[k + 1])
    /\ \A k \in DOMAIN stdout :
         IsErrorLine(stdout[k]) =>
           /\ stdout[k].path = items[stdout[k].idx + 1]
           /\ \A m \in DOMAIN stdout : m > k => stdout[m].idx # stdout[k].idx
    /\ err # NoErr => pc \notin StagePcs /\ (pc = "construct" => idx > 0)

\* a late stage (PBPK) of the first CT raised, and the driver went on
C2_Witness ==
    /\ pc = "done"
    /\ \E k \in DOMAIN stdout :
         /\ stdout[k].line = "Running Stage" /\ stdout[k].stage = "PBPK"
         /\ stdout[k].idx = 0
         /\ IsErrorLine(stdout[k + 1])
    /\ Len(items) = 2

\* C3: every discovered CT is attempted exactly once, in turn, whatever the
\* earlier ones did; the loop never stops before the last item; main()
\* returns 0.
C3_BatchContinuesAfterFailure ==
    /\ \A k \in DOMAIN outcomes : outcomes[k].idx = k - 1
    /\ pc \in StagePcs \cup {"construct"} =>
         idx < Len(items) /\ Len(outcomes) = idx
    /\ pc \in {"exit", "done"} => Len(outcomes) = Len(items)
    /\ pc = "done" => exitCode = Some(0)

\* the constructor of the first CT rejected its input, the second CT was run,
\* and main() returned
C3_Witness ==
    /\ pc = "done"
    /\ Len(outcomes) = 2
    /\ items[1] = NameText
    /\ outcomes[1].how = "failed"
    /\ outcomes[2].how = "returned"

\* C6: the output roots of different CT indices differ; every file operation
\* of a pipeline is under the root of its CT; a step of a pipeline leaves every
\* file outside that root as it was.
C6_OutputRootsIsolated ==
    /\ \A j \in 0 .. MaxRootIndex :
         j # idx => OutputRoot(j) # OutputRoot(idx)
    /\ log # <<>> =>
         \A k \in DOMAIN log : log[k].path.root = OutputRoot(Owner)
    /\ outcomes # <<>> \/ pc \in StagePcs =>
         \A p \in DOMAIN prev.disk :
             p.root # OutputRoot(Owner) =>
                 p \in DOMAIN disk /\ disk[p] = prev.disk[p]

\* the second pipeline wrote its unified volume while the first one's exists
C6_Witness ==
    /\ pc = "pre"
    /\ idx = 1
    /\ \E k \in DOMAIN log :
         /\ log[k].path.file = "tdt_roi_seg.nii.gz"
         /\ log[k].path.root = OutputRoot(1)
    /\ \E p \in DOMAIN disk :
         p.file = "tdt_roi_seg.nii.gz" /\ p.root = OutputRoot(0)

\* C7: the items are the non-hidden entries in ascending name order; the entry
\* with k non-hidden entries before it is run as CT k; nothing is run for a
\* hidden entry; output is in CT order; a pipeline is constructed only when
\* all earlier ones have ended.
C7_SortedOneAtATime ==
    /\ pc # "start" =>
         /\ Elems(items) = {n \in dir : n[1] # "."}
         /\ \A a, b \in DOMAIN items : a < b => StrLess(items[a], items[b])
    /\ \A k \in DOMAIN stdout :
         stdout[k].path # <<>> =>
           /\ stdout[k].path \in dir
           /\ stdout[k].path[1] # "."
           /\ Cardinality({n \in dir : n[1] # "."
                                       /\ StrLess(n, stdout[k].path)})
                = stdout[k].idx
    /\ \A k \in 1 .. Len(stdout) - 1 : stdout[k].idx <= stdout[k + 1].idx
    /\ pc \in StagePcs =>
         /\ ctx.ct_indx = Some(idx)
         /\ ctx.ct_input_path = Some(items[idx + 1])
         /\ Len(outcomes) = idx

\* a hidden entry next to a CT: the CT was run as CT 0, nothing else was
C7_Witness ==
    /\ pc = "done"
    /\ dir = {NameHidden, NameNii}
    /\ Len(outcomes) = 1
    /\ \E k \in DOMAIN stdout :
         stdout[k].line = "Starting TDT Pipeline" /\ stdout[k].idx = 0
                                                  /\ stdout[k].path = NameNii

---------------------------------------------------------------------------
(***************************************************************************)
(* Properties of a second driver run and of stage entry                    *)
(***************************************************************************)
\* the pipeline of CT i ended run r of the driver without an exception
ReturnedIn(r, i) ==
    \E k \in DOMAIN outcomes :
        outcomes[k] = [run |-> r, idx |-> i, how |-> "returned"]

\* the files (not the directories) of a tree
FilesOf(d) == {p \in DOMAIN d : p.file # "/"}

\* the outputs of the stages: every file but the log file of the driver
OutputsOf(d) == {p \in FilesOf(d) : p.file # "logging_file_CT.log"}

\* C4: when the pipeline of a CT has gone through its stages on a tree that
\* holds every output of an earlier run of the same pipeline, it has invoked
\* no external tool and every output file has the content that run left.
C4_RerunIsNoOp ==
    (runNo > 1 /\ pc = "break" /\ ReturnedIn(runNo - 1, idx)) =>
        /\ calls = <<>>
        /\ \A p \in OutputsOf(kept) :
               p.root = OutputRoot(idx) =>
                   p \in DOMAIN disk /\ disk[p] = kept[p]

\* a stage was constructed and run on its own
Invoked ==
    /\ pc = "exit"
    /\ outcomes # <<>>
    /\ outcomes[Len(outcomes)].how = "invoked"

InvokedStage == stdout[Len(stdout) - 1].stage

StageReads(name) ==
    CASE name = "TDT ROI Unification" -> UnifyReads
      [] name = "PBPK" -> PbpkReads
      [] name = "SIMIND Simulation" -> SimindReads
      [] OTHER -> {}

\* C5: a stage run on a context in which a field it reads from an earlier
\* stage is null raises the missing-context-field error naming that field,
\* having written no file, invoked no tool and set no context field.
C5_NullFieldRejectedAtEntry ==
    Invoked =>
        \A f \in StageReads(InvokedStage) :
            IsNone(prev.ctx[f]) =>
                /\ err.tag = "missing_context_field"
                /\ f \in Elems(err.names)
                /\ FilesOf(disk) = FilesOf(prev.disk)
                /\ \A p \in FilesOf(disk) : disk[p] = prev.disk[p]
                /\ calls = prev.calls
                /\ ctx = prev.ctx

---------------------------------------------------------------------------
(***************************************************************************)
(* Properties of the segmentation stage                                    *)
(***************************************************************************)
SegInvoked == Invoked /\ InvokedStage = "TotalSegmentator"

\* the ROI names the user asked for, stripped, blank ones left out
RequestedRois == NormalizeRois(config.roi_subset)

\* the ROI names of the request that the pipeline does not know
OffendingRois == SelectSeq(RequestedRois, LAMBDA r : r \notin TDT_ALLOWED_ROIS)

RoisRejected == RequestedRois = <<>> \/ OffendingRois # <<>>

\* the task is one the request enables
TaskEnabled(task) ==
    /\ ~RoisRejected
    /\ CASE task = "body" -> TRUE
         [] task = "total" ->
              Elems(RequestedRois)
                \cap {"kidney", "liver", "prostate", "spleen", "heart"} # {}
         [] task = "head_glands_cavities" ->
              "salivary_glands" \in Elems(RequestedRois)
         [] OTHER -> FALSE

StandardizedCt == JoinPlain(PreprocDir(prev.ctx), "ct.nii.gz")

SegOutputs ==
    {StandardizedCt}
    \cup {SegMaskPath(prev.ctx, t) :
            t \in {"body", "total", "head_glands_cavities"}}

SegmenterCalls == SelectSeq(calls, LAMBDA c : c.tool = "totalsegmentator")

\* C8: in every run of the stage, whatever earlier runs left on the tree,
\* the segmenter is invoked for a task only if the request enables the task
\* and the task's output was absent, at most once per task; a converter is
\* invoked only if the standardized CT was absent; a task output or
\* standardized CT that existed is not written by the run.
C8_SegmenterOnlyForAbsentOutputs ==
    SegInvoked =>
        /\ \A k \in DOMAIN calls :
             IF calls[k].tool = "totalsegmentator"
             THEN /\ TaskEnabled(calls[k].task)
                  /\ calls[k].out = SegMaskPath(prev.ctx, calls[k].task)
                  /\ ~Exists(prev.disk, calls[k].out)
                  /\ \A m \in DOMAIN calls :
                         calls[m] = calls[k] => m = k
             ELSE /\ calls[k].tool \in {"dicom2nifti", "sitk"}
                  /\ ~Exists(prev.disk, StandardizedCt)
        /\ \A p \in SegOutputs \cap DOMAIN prev.disk :
             /\ p \in DOMAIN disk
             /\ disk[p] = prev.disk[p]
             /\ \A k \in DOMAIN log : k > Len(prev.log) => log[k].path # p

\* a later run finds the body mask and the standardized CT of an earlier run
\* and runs the total task alone
C8_Witness ==
    /\ SegInvoked
    /\ runNo > 1
    /\ Exists(prev.disk, SegMaskPath(prev.ctx, "body"))
    /\ Exists(prev.disk, StandardizedCt)
    /\ Len(calls) = 1
    /\ calls[1].tool = "totalsegmentator"
    /\ calls[1].task = "total"
    /\ err = NoErr

\* C9: with an empty ROI list or a name outside the closed set the stage
\* fails, invokes no segmenter and sets none of its five context fields; the
\* exception is the invalid-ROI error listing the offending names (the
\* empty-list error for an empty list) unless a converter raised while the
\* CT was standardized.
C9_InvalidRoisRejected ==
    (SegInvoked /\ RoisRejected) =>
        /\ err # NoErr
        /\ SegmenterCalls = <<>>
        /\ \A f \in {"ct_nii_path", "body_ml_path", "total_ml_path",
                     "head_glands_cavities_ml_path", "totseg_plan"} :
               IsNone(ctx[f])
        /\ \/ /\ err.kind = "ValueError"
              /\ err.tag = IF RequestedRois = <<>> THEN "empty_roi_subset"
                           ELSE "invalid_roi"
              /\ err.names = OffendingRois
           \/ /\ err.tag = "external_tool"
              /\ ~Exists(prev.disk, StandardizedCt)
              /\ Len(calls) = 1
              /\ calls[1].tool \in {"dicom2nifti", "sitk"}

\* the request names an unknown ROI, the CT was standardized, and the stage
\* raised naming that ROI
C9_Witness ==
    /\ SegInvoked
    /\ OffendingRois = <<"lung">>
    /\ Exists(disk, StandardizedCt)
    /\ err = Err("ValueError", "invalid_roi", <<"lung">>)
    /\ SegmenterCalls = <<>>

\* C9 as first stated: the exception is always the invalid-ROI error
C9_AlwaysInvalidRoiError ==
    (SegInvoked /\ RoisRejected) =>
        /\ err.kind = "ValueError"
        /\ err.tag \in {"empty_roi_subset", "invalid_roi"}
        /\ err.names = OffendingRois
        /\ SegmenterCalls = <<>>
        /\ \A f \in {"ct_nii_path", "body_ml_path", "total_ml_path",
                     "head_glands_cavities_ml_path", "totseg_plan"} :
               IsNone(ctx[f])

---------------------------------------------------------------------------
(***************************************************************************)
(* Properties of the unified ROI volume                                    *)
(***************************************************************************)
\* the unified ROI volumes on the tree
UnifiedVolumes == {p \in DOMAIN disk : p.file = "tdt_roi_seg.nii.gz"}

\* the stage whose completion was printed last
LastCompleted ==
    IF stdout # <<>> /\ stdout[Len(stdout)].line = "Stage completed"
    THEN stdout[Len(stdout)].stage ELSE ""

\* C10: every non-zero label of a unified ROI volume on the tree is a
\* canonical TDT id; when the unification stage has just completed, it is the
\* body id or the id of a requested ROI.
C10_UnifiedLabelsCanonical ==
    \A p \in UnifiedVolumes :
        /\ Labels(disk[p]) \ {0} \subseteq TdtIds
        /\ (LastCompleted = "TDT ROI Unification" /\ p.root = OutputRoot(idx)) =>
               Labels(disk[p]) \ {0} \subseteq
                   {tdt_name2id("body")}
                   \cup {tdt_name2id(r) : r \in Elems(RequestedRois)}

\* the lesion stage has overwritten the volume of a CT whose total mask held
\* a label the pipeline does not map
C10_Witness ==
    /\ LastCompleted = "Synthetic Lesions Generation"
    /\ \E c \in DOMAIN ts.total.data : ts.total.data[c] = 99
    /\ \E p \in UnifiedVolumes :
         /\ tdt_name2id("synthetic_lesion") \in Labels(disk[p])
         /\ tdt_name2id("body") \in Labels(disk[p])


---------------------------------------------------------------------------
(***************************************************************************)
(* Properties of the unification stage on masks of different shapes        *)
(***************************************************************************)
\* the last stage the driver started is the one named; prev is the state it
\* started from
StageRan(name) ==
    /\ Len(stdout) >= 2
    /\ stdout[Len(stdout) - 1].line = "Running Stage"
    /\ stdout[Len(stdout) - 1].stage = name

\* the shapes of the per-task volumes the unification stage loaded
LoadedShapes ==
    LET plan == Val(prev.ctx.totseg_plan)
    IN {prev.disk[Val(prev.ctx.body_ml_path)].shape}
       \cup (IF plan.run_total
              THEN {prev.disk[Val(prev.ctx.total_ml_path)].shape} ELSE {})
       \cup (IF plan.run_head_glands_cavities
              THEN {prev.disk[Val(prev.ctx.head_glands_cavities_ml_path)].shape}
              ELSE {})

\* C11: when the per-task volumes the unification stage loaded do not all
\* have one shape, the stage raises the shape-mismatch error, the output tree
\* is as it was before the stage (no unified volume written) and
\* context.tdt_roi_seg_path is not set.
C11_ShapeMismatchRejected ==
    (StageRan("TDT ROI Unification") /\ Cardinality(LoadedShapes) > 1) =>
        /\ err.kind = "ValueError"
        /\ err.tag = "shape_mismatch"
        /\ disk = prev.disk
        /\ log = prev.log
        /\ IsNone(ctx.tdt_roi_seg_path)

\* the total-task mask fits the body mask, the head-task mask does not, and
\* the stage raised on the head-task mask
C11_Witness ==
    /\ StageRan("TDT ROI Unification")
    /\ Val(prev.ctx.totseg_plan).run_total
    /\ Val(prev.ctx.totseg_plan).run_head_glands_cavities
    /\ prev.disk[Val(prev.ctx.total_ml_path)].shape = <<3, 1, 1>>
    /\ prev.disk[Val(prev.ctx.head_glands_cavities_ml_path)].shape = <<1, 3, 1>>
    /\ err = Err("ValueError", "shape_mismatch", <<"head">>)
    /\ ~Exists(disk, TdtRoiSegPath(prev.ctx))

---------------------------------------------------------------------------
(***************************************************************************)
(* Properties of the synthetic lesions stage                               *)
(***************************************************************************)
LesionsRan == StageRan("Synthetic Lesions Generation")

\* the unified volume as the unification stage left it, and as it is now
SegBefore == prev.disk[Val(prev.ctx.tdt_roi_seg_path)]
SegNow == disk[Val(prev.ctx.tdt_roi_seg_path)]

\* the lesion descriptors on the tree
Descriptors == {p \in DOMAIN disk : p.file = "lesion_metadata.json"}

\* the per-ROI lesion label maps on the tree
RoiLabelMaps == {p \in DOMAIN disk : p.file = "lesions_labels.nii.gz"}

\* the voxel spacing of the CT in mm, (z, y, x)
SpacingMm == <<ts.zooms[3], ts.zooms[2], ts.zooms[1]>>

\* the squared distance in mm between two voxel indices (z, y, x)
MmSq(c, d) ==
    (c[1] - d[1]) * (c[1] - d[1]) * SpacingMm[1] * SpacingMm[1]
    + (c[2] - d[2]) * (c[2] - d[2]) * SpacingMm[2] * SpacingMm[2]
    + (c[3] - d[3]) * (c[3] - d[3]) * SpacingMm[3] * SpacingMm[3]

\* C12: in every lesion descriptor the stage wrote, any two distinct lesions
\* of the ROI have their centres at least r_i + r_j + margin millimetres
\* apart.
C12_LesionsSeparated ==
    \A p \in Descriptors :
        \A i, j \in DOMAIN disk[p].centers_zyx :
            i # j =>
                LET sum == disk[p].radii_mm[i] + disk[p].radii_mm[j]
                           + disk[p].margin_mm
                IN \/ sum <= 0
                   \/ MmSq(disk[p].centers_zyx[i], disk[p].centers_zyx[j])
                        >= sum * sum

\* two sampled kidney lesions of radius 1 with margin 1, which fit only one
\* above the other and only where the voxels are 3 mm high
C12_Witness ==
    /\ LesionsRan
    /\ \E p \in Descriptors :
         /\ p.key = "kidney"
         /\ Val(config.specs)[1].prob = "gaussian"
         /\ disk[p].margin_mm = 1
         /\ Len(disk[p].centers_zyx) = 2

\* C13: every voxel of a per-ROI lesion label map, of the global lesion
\* mask and of the unified volume that the stage gave to a lesion held the
\* label of that lesion's ROI in the unified volume the stage started from.
C13_LesionsInsideRoi ==
    LesionsRan =>
        /\ \A p \in RoiLabelMaps : \A c \in DOMAIN disk[p].data :
               disk[p].data[c] > 0 => SegBefore.data[c] = tdt_name2id(p.key)
        /\ \A p \in DOMAIN disk : \A c \in DOMAIN SegBefore.data :
               (p.file = "all_lesions_binary.nii.gz" /\ disk[p].data[c] > 0) =>
                   \E q \in RoiLabelMaps :
                       /\ disk[q].data[c] > 0
                       /\ SegBefore.data[c] = tdt_name2id(q.key)
        /\ \A c \in DOMAIN SegBefore.data :
               SegNow.data[c] # SegBefore.data[c] =>
                   \E q \in RoiLabelMaps :
                       /\ disk[q].data[c] > 0
                       /\ SegBefore.data[c] = tdt_name2id(q.key)

\* a kidney lesion centred next to the liver voxel, which is within its
\* radius: the kidney voxel became lesion, the liver voxel stayed liver
C13_Witness ==
    /\ LesionsRan
    /\ err = NoErr
    /\ \E p \in Descriptors :
         /\ p.key = "kidney"
         /\ <<0, 0, 2>> \in Elems(disk[p].centers_zyx)
    /\ SegNow.data[<<2, 0, 0>>] = tdt_name2id("synthetic_lesion")
    /\ SegNow.data[<<3, 0, 0>>] = tdt_name2id("liver")

\* the stage had entries of specs to place
LesionsRequested ==
    /\ LesionsRan
    /\ ~IsNone(prev.ctx.config)
    /\ ~IsNone(Val(prev.ctx.config).specs)
    /\ Val(Val(prev.ctx.config).specs) # <<>>

\* the voxels (x, y, z) the unified volume labels with the ROI
RoiVoxels(roi) ==
    {c \in DOMAIN SegBefore.data : SegBefore.data[c] = tdt_name2id(roi)}

\* an entry of specs gives a centre (z, y, x) that is no voxel of its ROI
CenterOutsideRoi ==
    \E k \in DOMAIN Val(Val(prev.ctx.config).specs) :
        LET spec == Val(Val(prev.ctx.config).specs)[k]
        IN /\ spec.prob = "user_defined"
           /\ ~IsNone(spec.user_centers_zyx)
           /\ \E i \in DOMAIN Val(spec.user_centers_zyx) :
                 LET c == Val(spec.user_centers_zyx)[i]
                 IN <<c[3], c[2], c[1]>> \notin RoiVoxels(spec.roi)

\* C14: when the placement of the lesions of some ROI fails, the stage fails
\* and the unified volume on disk is as the unification stage wrote it; a
\* given centre that is no voxel of its ROI makes the placement fail.
C14_FailedPlacementKeepsSeg ==
    LesionsRequested =>
        /\ err # NoErr => SegNow = SegBefore
        /\ CenterOutsideRoi => err # NoErr

\* C15: after the stage has placed its lesions, a voxel of the unified
\* volume holds the synthetic_lesion id iff some per-ROI lesion label map
\* (equally, the global lesion mask) holds it, every other voxel holds the
\* label it held before the stage, and the shape is the same.
C15_OnlyLesionVoxelsRelabelled ==
    (LesionsRequested /\ err = NoErr) =>
        LET union == {c \in DOMAIN SegBefore.data :
                        \E q \in RoiLabelMaps : disk[q].data[c] > 0}
            global == disk[JoinPlain(LesionsOutdir(prev.ctx),
                                     "all_lesions_binary.nii.gz")]
        IN /\ SegNow.shape = SegBefore.shape
           /\ DOMAIN SegNow.data = DOMAIN SegBefore.data
           /\ {c \in DOMAIN global.data : global.data[c] > 0} = union
           /\ \A c \in DOMAIN SegBefore.data :
                 /\ SegNow.data[c] = tdt_name2id("synthetic_lesion") <=>
                        c \in union
                 /\ c \notin union => SegNow.data[c] = SegBefore.data[c]

\* lesions in the kidney and in the liver: both organs lost voxels to
\* lesions, the rest of the kidney and the background kept their labels
C15_Witness ==
    /\ LesionsRequested
    /\ err = NoErr
    /\ Cardinality(RoiLabelMaps) = 2
    /\ SegBefore.data[<<3, 0, 0>>] = tdt_name2id("liver")
    /\ SegNow.data[<<3, 0, 0>>] = tdt_name2id("synthetic_lesion")
    /\ tdt_name2id("kidney") \in Labels(SegNow)
    /\ \E c \in DOMAIN SegNow.data :
         /\ SegBefore.data[c] = tdt_name2id("kidney")
         /\ SegNow.data[c] = tdt_name2id("synthetic_lesion")
    /\ SegNow.data[<<3, 1, 0>>] = 0

---------------------------------------------------------------------------
(***************************************************************************)
(* Properties of the activity maps of the PBPK stage                       *)
(***************************************************************************)
\* the PBPK stage ran last and returned normally
PbpkDone == StageRan("PBPK") /\ err = NoErr

\* the filtered ROI volume the preprocessing stage wrote
FilteredRois == disk[JoinPlain(PreprocDir(ctx), "roi_seg.bin")]

\* the first-frame maps of the organs and the whole-volume map of frame k
OrganMaps ==
    {p \in DOMAIN disk :
        p.file = "act_av.bin" /\ p.key # "" /\ p.sub = PbpkDir(ctx).sub}
FrameMap(k) ==
    disk[Join(PbpkDir(ctx), "act_av.bin", "",
              Val(ctx.config).FrameStartTimes[k], 0)]

\* C16: after the PBPK stage, for every frame the whole-volume activity is
\* the sum over the ROIs of the per-ROI activities of that frame, and every
\* non-background voxel of the filtered ROI volume holds the concentration
\* of exactly one ROI.
C16_ActivityConserved ==
    PbpkDone =>
        LET total == Val(ctx.activity_map_sum)
            organs == Val(ctx.activity_organ_sum)
        IN /\ DOMAIN total = DOMAIN Val(ctx.config).FrameStartTimes
           /\ \A k \in DOMAIN total :
                 total[k] = SumSeq([j \in DOMAIN organs |-> organs[j].sum[k]])
           /\ \A c \in DOMAIN FilteredRois.data :
                 FilteredRois.data[c] # 0 =>
                     \E p \in OrganMaps :
                        /\ disk[p][c] > 0
                        /\ FrameMap(1)[c] = disk[p][c]
                        /\ \A q \in OrganMaps \ {p} : disk[q][c] = 0

\* three ROIs received activity, the lesions among them, the kidney mask of
\* more than one voxel
C16_Witness ==
    /\ PbpkDone
    /\ Len(Val(ctx.activity_organ_sum)) = 3
    /\ \E j \in DOMAIN Val(ctx.activity_organ_sum) :
          Val(ctx.activity_organ_sum)[j].name = "synthetic_lesion"
    /\ tdt_name2id("kidney") \in DOMAIN Val(ctx.mask_roi_body)
    /\ Cardinality(Val(ctx.mask_roi_body)[tdt_name2id("kidney")]) > 1
    /\ \A k \in DOMAIN Val(ctx.activity_map_sum) :
          Val(ctx.activity_map_sum)[k] > 0

---------------------------------------------------------------------------
(***************************************************************************)
(* Properties of the ROI -> VOI mapping of the PBPK stage                  *)
(***************************************************************************)
\* the PBPK stage ran last, whatever its outcome
PbpkRan == StageRan("PBPK")

\* the ROIs the PBPK stage loops over
PbpkRois ==
    SelectSeq(Val(prev.ctx.class_seg), LAMBDA r : r.name # "background")

\* the fixed table, Rest for a name without an entry
TableVoi(roi_name) ==
    CASE roi_name = "kidney" -> "Kidney" [] roi_name = "liver" -> "Liver"
      [] roi_name = "prostate" -> "Prostate" [] roi_name = "spleen" -> "Spleen"
      [] roi_name = "heart" -> "Heart" [] roi_name = "salivary_glands" -> "SG"
      [] roi_name = "body" -> "Rest"
      [] OTHER -> "Rest"

TableNames ==
    {"kidney", "liver", "prostate", "spleen", "heart", "salivary_glands",
     "body"}

\* the samples written for an ROI are those of the curve of the VOI
TakesTacOf(roi_name, voi) ==
    LET p == Join(PbpkDir(ctx), "sample_values.bin", roi_name, 0, 0)
    IN /\ p \in DOMAIN disk
       /\ disk[p] = [k \in DOMAIN Val(ctx.config).FrameStartTimes |->
                       TacInterp(Val(ctx.pbpk_parameters), voi, k)]

\* the solver returned its curves: the stage reached the loop over the ROIs
SolverReturned ==
    /\ PbpkRan
    /\ Len(calls) > Len(prev.calls)
    /\ ~(err.kind = "RuntimeError" /\ err.tag = "external_tool")

\* C17: after the PBPK stage every ROI of class_seg has the curve of the VOI
\* of the fixed table, an ROI outside the table the curve of Rest; when an
\* ROI outside the table exists and Rest is not configured, the stage fails
\* with the no-VOI-mapping error and writes no curve for that ROI.
C17_RoiTakesTableVoi ==
    /\ (PbpkRan /\ err = NoErr) =>
          \A j \in DOMAIN PbpkRois :
             TakesTacOf(PbpkRois[j].name, TableVoi(PbpkRois[j].name))
    /\ SolverReturned =>
          \A j \in DOMAIN PbpkRois :
             (PbpkRois[j].name \notin TableNames
                  /\ "Rest" \notin Elems(Val(ctx.config).VOIs)) =>
                /\ err.kind = "ValueError" /\ err.tag = "no_voi_mapping"
                /\ Join(PbpkDir(ctx), "sample_values.bin", PbpkRois[j].name,
                        0, 0) \notin DOMAIN disk

\* C17 (amended): after the PBPK stage every ROI of class_seg has the curve
\* of its VOI of the fixed table when that VOI is configured and the curve
\* of Rest otherwise (no entry in the table, or an entry whose VOI is not
\* configured); when the VOI of an ROI is not configured and Rest is not
\* either, the stage fails with the no-VOI-mapping error and writes no
\* curve for that ROI.
C17_RoiTakesConfiguredVoi ==
    LET vois == Elems(Val(ctx.config).VOIs)
        configured(r) == r \in TableNames /\ TableVoi(r) \in vois
    IN /\ (PbpkRan /\ err = NoErr) =>
             \A j \in DOMAIN PbpkRois :
                TakesTacOf(PbpkRois[j].name,
                           IF configured(PbpkRois[j].name)
                           THEN TableVoi(PbpkRois[j].name) ELSE "Rest")
       /\ SolverReturned =>
             \A j \in DOMAIN PbpkRois :
                (~configured(PbpkRois[j].name) /\ "Rest" \notin vois) =>
                   /\ err.kind = "ValueError" /\ err.tag = "no_voi_mapping"
                   /\ Join(PbpkDir(ctx), "sample_values.bin",
                           PbpkRois[j].name, 0, 0) \notin DOMAIN disk

\* Liver is not configured: the kidney has the curve of Kidney, the liver
\* and the lesions have the curve of Rest
C17_Witness ==
    /\ PbpkRan
    /\ err = NoErr
    /\ "Liver" \notin Elems(Val(ctx.config).VOIs)
    /\ TakesTacOf("kidney", "Kidney")
    /\ TakesTacOf("liver", "Rest")
    /\ TakesTacOf("synthetic_lesion", "Rest")
    /\ ~TakesTacOf("liver", "Liver")

---------------------------------------------------------------------------
(***************************************************************************)
(* Properties of the simulation stage                                      *)
(***************************************************************************)
\* the simulation stage ran last
SimindRan == StageRan("SIMIND Simulation")

\* the tool invocations and the file operations of the last stage run
NewCalls == Len(prev.calls) + 1 .. Len(calls)
NewLog == Len(prev.log) + 1 .. Len(log)

\* the child simulator processes the last stage run launched
Launched ==
    {k \in NewCalls : calls[k].tool = "simind" /\ calls[k].task # "calibration"}

\* the exit status p.wait() returned for the process of invocation k
ExitStatus(k) ==
    log[CHOOSE m \in NewLog :
            log[m].op = "wait" /\ log[m].path = calls[k].out].code

\* a file written by the last stage run
Written(p) == \E m \in NewLog : log[m].op = "write" /\ log[m].path = p

\* the process of invocation k left one of its three window files missing
WindowMissing(k) ==
    \E w \in 1 .. 3 :
       LET p == [calls[k].out EXCEPT !.w = w]
       IN p \notin DOMAIN prev.disk /\ ~Written(p)

\* the stage failed at the aggregation of the organ, with no aggregate of
\* the organ and no per-frame total written
FailedAtAggregation(organ) ==
    /\ err.kind = "FileNotFoundError"
    /\ err.tag = "core_output"
    /\ err.names = <<organ>>
    /\ stdout[Len(stdout)].line # "Stage completed"
    /\ \A m \in NewLog :
          log[m].op = "write" =>
             /\ ~(log[m].path.file = "organ_tot.a00" /\ log[m].path.key = organ)
             /\ log[m].path.file # "min_tot.a00"

\* C18: when a child simulator process of an organ exits with a non-zero
\* status or leaves one of its three per-core window files missing, the
\* stage fails at that organ's aggregation: no aggregate file of the organ
\* and no per-frame total is written, and the stage does not complete.
C18_ProcessFailureFailsStage ==
    SimindRan =>
        \A k \in Launched :
           (ExitStatus(k) # 0 \/ WindowMissing(k)) =>
               FailedAtAggregation(calls[k].task)

\* the organs the simulator was launched for in a step, the step's runs of
\* the calibration command and its writes of per-frame totals
StepLaunches ==
    {calls'[k].task : k \in {m \in Len(calls) + 1 .. Len(calls') :
                                calls'[m].tool = "simind"
                                /\ calls'[m].task # "calibration"}}
StepCalibrations ==
    {k \in Len(calls) + 1 .. Len(calls') :
        calls'[k].tool = "simind" /\ calls'[k].task = "calibration"}
StepFrameWrites ==
    {m \in Len(log) + 1 .. Len(log') :
        log'[m].op = "write" /\ log'[m].path.file = "min_tot.a00"}

\* one run of the simulation stage against the tree it started on
ShortCircuitStep ==
    SimindRuns' = SimindRuns + 1 =>
        /\ \A organ \in StepLaunches :
              ~(organ_totals_exist(Current, organ)
                    /\ organ_headers_exist(Current, organ))
        /\ StepFrameWrites # {} => ~frame_totals_exist(Current)
        /\ StepCalibrations # {} => ~Exists(disk, CalibRes(ctx))
        /\ Cardinality(StepCalibrations) <= 1
        /\ err' = NoErr =>
              /\ \A k \in DOMAIN Val(ctx.class_seg) :
                    LET organ == Val(ctx.class_seg)[k].name
                    IN ~(organ_totals_exist(Current, organ)
                             /\ organ_headers_exist(Current, organ))
                          => organ \in StepLaunches
              /\ ~frame_totals_exist(Current) => StepFrameWrites # {}
              /\ ~Exists(disk, CalibRes(ctx)) => StepCalibrations # {}

\* C19: in every run of the simulation stage the simulator is launched for
\* an organ only if one of the organ's three aggregate files or its core-0
\* header is missing, the per-frame totals are written only if one of them
\* is missing, and the calibration command is run only if calib.res is
\* absent, so at most once while calib.res stays; a run that completes has
\* done each of these for what was missing.
C19_ExistingOutputsShortCircuit == [][ShortCircuitStep]_vars

\* a second run after an organ aggregate was removed: the simulator was
\* launched for that organ alone, the calibration command ran once in all
C19_Witness ==
    /\ SimindRan
    /\ SimindRuns = 2
    /\ err = NoErr
    /\ Len(Val(ctx.class_seg)) >= 2
    /\ Cardinality({calls[k].task : k \in Launched}) = 1
    /\ Cardinality({k \in DOMAIN calls : calls[k].task = "calibration"}) = 1
    /\ \A k \in NewCalls : calls[k].task # "calibration"

---------------------------------------------------------------------------
(***************************************************************************)
(* Properties of Context.require                                           *)
(***************************************************************************)
\* the given names that are no attribute of the context or hold None
MissingNames ==
    {n \in Elems(args.names) :
        \/ n \notin DOMAIN prev.ctx \cup ContextMethods
        \/ (n \in DOMAIN prev.ctx /\ prev.ctx[n] = None)}

\* C20: require(*names) raises an error that lists exactly the given names
\* that are no attribute of the context or hold None, returns normally iff
\* there is no such name, and leaves the context as it was in both cases.
C20_RequireListsMissing ==
    pc = "required" =>
        /\ err = NoErr <=> MissingNames = {}
        /\ err # NoErr =>
              /\ err.kind = "AttributeError"
              /\ Elems(err.names) = MissingNames
        /\ ctx = prev.ctx
        /\ disk = prev.disk

\* three names given, one a field that is set: the error lists the field
\* that holds None and the name that is no attribute, and not the third
C20_Witness ==
    /\ pc = "required"
    /\ args.names = <<"class_seg", "no_such_field", "atn_av_path">>
    /\ ctx.class_seg # None
    /\ err.names = <<"no_such_field", "atn_av_path">>

---------------------------------------------------------------------------
(***************************************************************************)
(* Properties of the execution plan of the segmentation stage              *)
(***************************************************************************)
\* the ROIs that the total task segments
TotalTaskRois == {"kidney", "liver", "prostate", "spleen", "heart"}

\* the external names a requested ROI expands to
Expansion(r) == TDT_TO_TOTSEG(r).expanded

\* where the external name x first occurs when the expansions of the requested
\* total-task ROIs are written one after another
FirstOccurrence(x, rois) ==
    LET at == {k \in DOMAIN rois :
                 rois[k] \in TotalTaskRois /\ x \in Elems(Expansion(rois[k]))}
        k == CHOOSE m \in at : \A n \in at : m <= n
        i == CHOOSE m \in DOMAIN Expansion(rois[k]) : Expansion(rois[k])[m] = x
    IN <<k, i>>

\* s is the duplicate-free concatenation, in request order, of the expansions
\* of the requested total-task ROIs
IsDuplicateFreeConcatenation(s, rois) ==
    /\ Elems(s) = UNION {Elems(Expansion(r)) : r \in Elems(rois) \cap TotalTaskRois}
    /\ \A i, j \in DOMAIN s :
          i < j =>
            LET a == FirstOccurrence(s[i], rois)
                b == FirstOccurrence(s[j], rois)
            IN a[1] < b[1] \/ (a[1] = b[1] /\ a[2] < b[2])

\* C21: for every non-empty request of known ROIs the plan has run_body
\* true, run_total true iff a ROI of {kidney, liver, prostate, spleen, heart}
\* is requested, run_head_glands_cavities true iff salivary_glands is
\* requested, and total_roi_subset the duplicate-free concatenation in
\* request order of the expansions of the requested total-task ROIs; every
\* segmenter call is for an enabled task, the total call carrying that
\* roi_subset and the body and head calls none; a run that completes has
\* called the segmenter for each enabled task whose output was absent.
C21_PlanMatchesRequest ==
    (SegInvoked /\ ~RoisRejected) =>
        /\ err = NoErr =>
              LET plan == Val(ctx.totseg_plan)
              IN /\ plan.run_body
                 /\ plan.run_total <=>
                       Elems(RequestedRois) \cap TotalTaskRois # {}
                 /\ plan.run_head_glands_cavities <=>
                       "salivary_glands" \in Elems(RequestedRois)
                 /\ IsDuplicateFreeConcatenation(plan.total_roi_subset,
                                                 RequestedRois)
                 /\ \A task \in {"body", "total", "head_glands_cavities"} :
                       (/\ TaskEnabled(task)
                        /\ ~Exists(prev.disk, SegMaskPath(prev.ctx, task))) =>
                          \E k \in DOMAIN SegmenterCalls :
                              SegmenterCalls[k].task = task
        /\ \A k \in DOMAIN SegmenterCalls :
              LET c == SegmenterCalls[k]
              IN /\ TaskEnabled(c.task)
                 /\ IF c.task = "total"
                    THEN /\ ~IsNone(c.roi_subset)
                         /\ IsDuplicateFreeConcatenation(Val(c.roi_subset),
                                                         RequestedRois)
                    ELSE IsNone(c.roi_subset)

\* liver then kidney requested: the total task is called with liver and the
\* two kidneys in that order, after the body task, and no head task
C21_Witness ==
    /\ SegInvoked
    /\ err = NoErr
    /\ RequestedRois = <<"liver", "kidney">>
    /\ Val(ctx.totseg_plan).total_roi_subset =
          <<"liver", "kidney_left", "kidney_right">>
    /\ ~Val(ctx.totseg_plan).run_head_glands_cavities
    /\ Len(SegmenterCalls) = 2
    /\ SegmenterCalls[2].task = "total"
    /\ SegmenterCalls[2].roi_subset =
          Some(<<"liver", "kidney_left", "kidney_right">>)

---------------------------------------------------------------------------
(***************************************************************************)
(* Properties of the voxels of the unified ROI volume                      *)
(***************************************************************************)
UnifyCompleted == StageRan("TDT ROI Unification") /\ err = NoErr

\* the order in which _create_roi_unified paints the total-task ROIs
PaintOrder == <<"kidney", "liver", "prostate", "spleen", "heart">>

\* the four gland labels of the head-task volume
GlandLabels ==
    {head_name2id(n) : n \in Elems(Expansion("salivary_glands"))}

\* the per-task volumes the stage loaded; a task that did not run has none
BodyVolume == prev.disk[Val(prev.ctx.body_ml_path)]
TotalVolume ==
    IF IsNone(prev.ctx.total_ml_path) THEN None
    ELSE Some(prev.disk[Val(prev.ctx.total_ml_path)])
HeadVolume ==
    IF IsNone(prev.ctx.head_glands_cavities_ml_path) THEN None
    ELSE Some(prev.disk[Val(prev.ctx.head_glands_cavities_ml_path)])

\* the places in the paint order of the requested ROIs whose expanded
\* external label the total-task volume holds at voxel c
TotalMatches(c) ==
    {k \in DOMAIN PaintOrder :
        /\ PaintOrder[k] \in Elems(RequestedRois)
        /\ ~IsNone(TotalVolume)
        /\ Val(TotalVolume).data[c] \in
              {total_name2id(x) : x \in Elems(Expansion(PaintOrder[k]))}}

\* the label the claim gives voxel c
ExpectedLabel(c) ==
    IF /\ "salivary_glands" \in Elems(RequestedRois)
       /\ ~IsNone(HeadVolume)
       /\ Val(HeadVolume).data[c] \in GlandLabels
    THEN tdt_name2id("salivary_glands")
    ELSE IF TotalMatches(c) # {}
    THEN tdt_name2id(PaintOrder[Max(TotalMatches(c))])
    ELSE IF BodyVolume.data[c] > 0 THEN tdt_name2id("body")
    ELSE 0

\* the unified volume the stage wrote
UnifiedVolume == disk[TdtRoiSegPath(ctx)]

\* C22: in the unified volume the unification stage writes, each voxel holds
\* the salivary_glands id if salivary_glands is requested and the head-task
\* volume holds a gland label there; otherwise the id of the last-painted
\* requested total-task ROI whose expanded label the total-task volume holds
\* there; otherwise the body id if the body mask is positive there; otherwise
\* 0.  A voxel of a requested organ is never labelled body and a ROI that was
\* not requested is never painted.
C22_VoxelLabelByPrecedence ==
    UnifyCompleted =>
        /\ DOMAIN UnifiedVolume.data = DOMAIN BodyVolume.data
        /\ \A c \in DOMAIN UnifiedVolume.data :
              /\ UnifiedVolume.data[c] = ExpectedLabel(c)
              /\ TotalMatches(c) # {} =>
                    UnifiedVolume.data[c] # tdt_name2id("body")
        /\ Labels(UnifiedVolume) \ {0, tdt_name2id("body")} \subseteq
              {tdt_name2id(r) : r \in Elems(RequestedRois)}

\* liver, kidney and salivary_glands requested: a kidney voxel inside the body
\* is labelled kidney, and a voxel that the total mask calls liver and the
\* head mask calls a gland is labelled salivary_glands
C22_Witness ==
    /\ UnifyCompleted
    /\ Elems(RequestedRois) = {"liver", "kidney", "salivary_glands"}
    /\ \E c \in DOMAIN UnifiedVolume.data :
          /\ BodyVolume.data[c] > 0
          /\ Val(TotalVolume).data[c] = total_name2id("kidney_left")
          /\ UnifiedVolume.data[c] = tdt_name2id("kidney")
    /\ \E c \in DOMAIN UnifiedVolume.data :
          /\ Val(TotalVolume).data[c] = total_name2id("liver")
          /\ Val(HeadVolume).data[c] \in GlandLabels
          /\ UnifiedVolume.data[c] = tdt_name2id("salivary_glands")

---------------------------------------------------------------------------
(***************************************************************************)
(* Properties of the accepted lesion centres                               *)
(***************************************************************************)
\* the voxels (z, y, x) of the volume the stage started from
VoxelsZyx ==
    {<<c[3], c[2], c[1]>> : c \in DOMAIN SegBefore.data}

\* the voxels (z, y, x) of the ROI in the volume the stage started from
RoiMaskZyx(roi) == {<<c[3], c[2], c[1]>> : c \in RoiVoxels(roi)}

\* the centre c is a voxel of the ROI at least d millimetres from every
\* voxel that is not of the ROI
Admissible(c, roi, d) ==
    /\ c \in RoiMaskZyx(roi)
    /\ \A z \in VoxelsZyx \ RoiMaskZyx(roi) : d <= 0 \/ MmSq(c, z) >= d * d

\* C23: every centre the stage accepted for a lesion of radius r, sampled or
\* given, is a voxel of the ROI mask whose distance to the ROI boundary is at
\* least r + margin.
C23_CentersAdmissible ==
    LesionsRan =>
        \A p \in Descriptors :
            \A i \in DOMAIN disk[p].centers_zyx :
                Admissible(disk[p].centers_zyx[i], disk[p].roi,
                           disk[p].radii_mm[i] + disk[p].margin_mm)

---------------------------------------------------------------------------
(***************************************************************************)
(* Properties of the roi_subset the lesion stage hands to preprocessing    *)
(***************************************************************************)
\* context.config["spect_preprocessing"]["roi_subset"] of a context
RoiSubsetOf(c) == Val(c.config).roi_subset

\* how often the name occurs in a list
Occurrences(list, name) == Cardinality({k \in DOMAIN list : list[k] = name})

\* the lesion stage ran on non-empty specs and completed
LesionsPlaced == LesionsRequested /\ err = NoErr

\* the preprocessing stage ran on a roi_subset that names synthetic_lesion
FilteredWithLesions ==
    /\ StageRan("SIMIND Preprocessing")
    /\ "synthetic_lesion" \in Elems(RoiSubsetOf(prev.ctx).list)

\* the voxels of the SIMIND grid that a volume of the tree labels
\* synthetic_lesion
LesionVoxels(vol) == Where(vol, {tdt_name2id("synthetic_lesion")})

\* C24: the segmentation and unification stages run on a roi_subset without
\* synthetic_lesion; the lesion stage, run on non-empty specs, leaves the
\* context's roi_subset with synthetic_lesion appended, the name occurring
\* once; no other stage, and no lesion stage without specs, changes
\* roi_subset; and the preprocessing stage that follows filters the unified
\* volume keeping every voxel labelled synthetic_lesion.
C24_LesionNameAppendedForFilter ==
    /\ (StageRan("TotalSegmentator") \/ StageRan("TDT ROI Unification")) =>
          "synthetic_lesion" \notin Elems(RoiSubsetOf(prev.ctx).list)
    /\ LesionsPlaced =>
          /\ ~RoiSubsetOf(ctx).str
          /\ RoiSubsetOf(ctx).list =
                NormalizeRois(RoiSubsetOf(prev.ctx)) \o <<"synthetic_lesion">>
          /\ Occurrences(RoiSubsetOf(ctx).list, "synthetic_lesion") = 1
    /\ (Len(stdout) >= 2 /\ stdout[Len(stdout) - 1].line = "Running Stage"
          /\ ~LesionsRequested) =>
          RoiSubsetOf(ctx) = RoiSubsetOf(prev.ctx)
    /\ FilteredWithLesions =>
          /\ err = NoErr
          /\ LesionVoxels(disk[JoinPlain(PreprocDir(ctx), "roi_seg.bin")]) =
                LesionVoxels(to_simind_grid(
                                 prev.disk[Val(prev.ctx.tdt_roi_seg_path)]))

---------------------------------------------------------------------------
(***************************************************************************)
(* Properties of the child processes of the simulation stage               *)
(***************************************************************************)
\* N_cores of the run
Cores == NumCores(Val(prev.ctx.config))

\* the organs the last stage run launched the simulator for
LaunchedOrgans == {calls[k].task : k \in Launched}

\* the processes the last stage run launched for the organ
ProcsOf(organ) == {k \in Launched : calls[k].task = organ}

\* where the log of the run holds the launch and the termination of the
\* process of invocation k
PopenAt(k) ==
    CHOOSE m \in NewLog : log[m].op = "popen" /\ log[m].path = calls[k].out
ExitAt(k) ==
    CHOOSE m \in NewLog : log[m].op = "exit" /\ log[m].path = calls[k].out

\* the reads of per-core files of the organ in the last stage run
CoreReads(organ) ==
    {m \in NewLog : /\ log[m].op = "read"
                    /\ log[m].path.file = "tot.a00"
                    /\ log[m].path.key = organ}

\* what the cores of an organ left in window w, added up
CoreSum(organ, w) ==
    SumSeq([j \in 1 .. Cores |-> CoreCounts(organ, j - 1, w)])

\* C25: for each organ the stage simulates it launches exactly N_cores
\* processes, the j-th with seed /rr:j and tag <prefix>_<organ>_<j>; no
\* per-core file of the organ is read before all of them have terminated;
\* the processes of two organs never run at the same time; and the organ's
\* aggregate is the sum of the per-core arrays divided by N_cores, whatever
\* the order in which the processes terminate.
C25_CoresLaunchedWaitedAveraged ==
    SimindRan =>
        /\ \A organ \in LaunchedOrgans :
              /\ Cardinality(ProcsOf(organ)) = Cores
              /\ {calls[k].rr : k \in ProcsOf(organ)} = 0 .. Cores - 1
              /\ \A k \in ProcsOf(organ) :
                    /\ calls[k].out =
                          CoreFile(prev.ctx, organ, calls[k].rr, 0)
                    /\ \A m \in ProcsOf(organ) :
                          k < m => calls[k].rr < calls[m].rr
                    /\ \A m \in CoreReads(organ) : ExitAt(k) < m
        /\ \A k, m \in Launched :
              calls[k].task # calls[m].task =>
                 ExitAt(k) < PopenAt(m) \/ ExitAt(m) < PopenAt(k)
        /\ err = NoErr =>
              /\ \A i \in DOMAIN Val(prev.ctx.class_seg) :
                    LET organ == Val(prev.ctx.class_seg)[i].name
                    IN ~(organ_totals_exist(prev, organ)
                           /\ organ_headers_exist(prev, organ))
                         => organ \in LaunchedOrgans
              /\ \A organ \in LaunchedOrgans : \A w \in 1 .. 3 :
                    /\ disk[OrganTotal(ctx, organ, w)] =
                          <<[num |-> CoreSum(organ, w), div |-> Cores]>>
                    /\ Cardinality(CoreReads(organ)) = 3 * Cores
                    /\ ctx.mode = Some("DEBUG") =>
                          CoreSum(organ, w) =
                            SumSeq([j \in 1 .. Cores |->
                                      disk[CoreFile(ctx, organ, j - 1, w)]])

\* two organs simulated one after the other, the second process of an organ
\* terminating before the first, and the stage completed
C25_Witness ==
    /\ SimindRan
    /\ err = NoErr
    /\ Cardinality(LaunchedOrgans) >= 2
    /\ \E k, m \in Launched :
          /\ calls[k].task = calls[m].task
          /\ calls[k].rr = 0
          /\ calls[m].rr = 1
          /\ ExitAt(m) < ExitAt(k)

---------------------------------------------------------------------------
(***************************************************************************)
(* Properties of the per-frame totals                                      *)
(***************************************************************************)
\* the simulation stage ran last and the tree is as it left it
SimindJustRan == SimindRan /\ pc # "tampered"

\* the writes of per-frame totals in the last stage run
FrameWrites ==
    {m \in NewLog : log[m].op = "write" /\ log[m].path.file = "min_tot.a00"}

\* the organs of class_seg
Organs == {Val(ctx.class_seg)[j].name : j \in DOMAIN Val(ctx.class_seg)}

\* config["pbpk"]["FrameStartTimes"] and ["FrameDurations"]
FrameStart == Val(ctx.config).FrameStartTimes
FrameDurations == Val(ctx.config).FrameDurations

\* the sum over a set of organs of aggregate x activity x duration, the
\* aggregate being the one on disk, as the numerator over N_cores
RECURSIVE Recombined(_, _, _)
Recombined(S, t, w) ==
    IF S = {} THEN 0
    ELSE LET g == CHOOSE x \in S : TRUE
         IN disk[OrganTotal(ctx, g, w)][1].num * OrganSum(ctx, g)[t]
              * FrameDurations[t]
            + Recombined(S \ {g}, t, w)

\* the per-frame total on disk: the sum of its terms, and their divisors
FrameSum(t, w) ==
    LET terms == disk[FrameTotal(ctx, FrameStart[t], w)]
    IN SumSeq([j \in DOMAIN terms |-> terms[j].num])
FrameDivisors(t, w) ==
    LET terms == disk[FrameTotal(ctx, FrameStart[t], w)]
    IN {terms[j].div : j \in DOMAIN terms}

\* C26: when the stage recombines, it writes exactly one file per frame and
\* window, and the file of frame t and window w holds the sum over the
\* organs of class_seg, in whatever order they are taken, of the organ's
\* aggregate of window w times activity_organ_sum[organ][t] times
\* FrameDurations[t].
C26_FrameTotalsRecombined ==
    (SimindJustRan /\ FrameWrites # {}) =>
        /\ Cardinality(FrameWrites) = 3 * Len(FrameStart)
        /\ \A t \in DOMAIN FrameStart : \A w \in 1 .. 3 :
              /\ Cardinality({m \in FrameWrites :
                                log[m].path = FrameTotal(ctx, FrameStart[t], w)})
                    = 1
              /\ Len(disk[FrameTotal(ctx, FrameStart[t], w)])
                    = Cardinality(Organs)
              /\ FrameSum(t, w) = Recombined(Organs, t, w)
              /\ FrameDivisors(t, w) = {Cores}

\* a first run that simulated two organs or more and recombined them into
\* frames whose totals differ
C26_Witness ==
    /\ SimindJustRan
    /\ err = NoErr
    /\ SimindRuns = 1
    /\ Cardinality(Organs) >= 2
    /\ FrameWrites # {}
    /\ FrameSum(1, 1) # FrameSum(2, 1)
    /\ FrameSum(1, 1) > 0

---------------------------------------------------------------------------
(***************************************************************************)
(* Properties of the reconstruction stage                                  *)
(***************************************************************************)
ReconRan == StageRan("SPECT Reconstruction")

\* the reconstructed image of the frame at place t
ReconImage(t) == disk[ReconPath(ReconOutputDir(ctx), FrameStart[t])]

\* the frames whose image the reconstruction stage has written
Reconstructed ==
    {t \in DOMAIN FrameStart :
        Exists(disk, ReconPath(ReconOutputDir(ctx), FrameStart[t]))}

\* C27: the image of every reconstructed frame t was calibrated with the
\* duration FrameDurations[t] in seconds, the value by which the
\* recombination weighted the projections of frame t.
C27_FrameCalibratedWithOwnDuration ==
    ReconRan =>
        \A t \in Reconstructed :
            ReconImage(t).frame_duration = FrameDurations[t]

---------------------------------------------------------------------------
(***************************************************************************)
(* Properties of the clean-up of the per-core files                        *)
(***************************************************************************)
\* the removals of per-core window files in the last stage run
CoreRemoves ==
    {m \in NewLog : log[m].op = "remove" /\ log[m].path.file = "tot.a00"}

\* the writes of the aggregates of the organ in the last stage run
AggregateWrites(organ) ==
    {m \in NewLog : /\ log[m].op = "write"
                    /\ log[m].path.file = "organ_tot.a00"
                    /\ log[m].path.key = organ}

\* C28: a per-core window file of an organ is removed only in PRODUCTION
\* mode, and only after all 3 x N_cores per-core files of the organ were read
\* and the three aggregates of the organ were written; so a run whose
\* aggregation of the organ fails removes none of them, and DEBUG mode
\* removes none at all.
C28_CoreFilesDeletedAfterAggregation ==
    SimindRan =>
        \A m \in CoreRemoves :
            /\ ctx.mode = Some("PRODUCTION")
            /\ Cardinality(CoreReads(log[m].path.key)) = 3 * Cores
            /\ \A r \in CoreReads(log[m].path.key) : r < m
            /\ Cardinality(AggregateWrites(log[m].path.key)) = 3
            /\ \A a \in AggregateWrites(log[m].path.key) : a < m

---------------------------------------------------------------------------
(***************************************************************************)
(* Properties of the per-frame totals a run finds on disk                  *)
(***************************************************************************)
\* C29: when the simulation stage has returned without raising, the
\* per-frame total of every frame t and window w on disk is the sum over the
\* organs of the aggregate now on disk times the activity_organ_sum now in
\* the context times FrameDurations[t], whether or not the run simulated
\* anything, the activity sums changed, or the per-frame totals were there.
C29_FrameTotalsCurrent ==
    (SimindJustRan /\ err = NoErr) =>
        \A t \in DOMAIN FrameStart : \A w \in 1 .. 3 :
            FrameSum(t, w) = Recombined(Organs, t, w)

---------------------------------------------------------------------------
(***************************************************************************)
(* Properties of the per-organ activity files the simulation stage reads   *)
(***************************************************************************)
\* the copies of per-organ activity files into the work directory in the
\* last stage run
ActivityCopies ==
    {m \in NewLog : log[m].op = "write" /\ log[m].path.file = "act_av.bin"}

\* the organ whose activity file was copied last before invocation k
SimulatedFrom(k) ==
    log[CHOOSE m \in ActivityCopies :
           /\ m < PopenAt(k)
           /\ \A q \in ActivityCopies : q < PopenAt(k) => q <= m].path.key

\* the voxels where the activity file p of the entry tree is not zero
ActiveVoxels(p) ==
    {c \in DOMAIN prev.disk[p] : prev.disk[p][c] # 0}

\* C30: the context the simulation stage is entered with holds one activity
\* path per key of class_seg, the i-th path being the first-frame activity
\* file of the i-th key, active exactly in the mask of that key; every
\* simulator process is launched for the organ whose activity file was copied
\* for it.
C30_ActivityPathsAligned ==
    (/\ SimindRan
     /\ ~IsNone(prev.ctx.class_seg)
     /\ ~IsNone(prev.ctx.activity_map_paths_by_organ)) =>
        /\ Len(Val(prev.ctx.activity_map_paths_by_organ))
              = Len(Val(prev.ctx.class_seg))
        /\ \A i \in DOMAIN Val(prev.ctx.class_seg) :
              LET roi == Val(prev.ctx.class_seg)[i]
                  p == Val(prev.ctx.activity_map_paths_by_organ)[i]
              IN /\ p = Join(PbpkDir(prev.ctx), "act_av.bin", roi.name, 0, 0)
                 /\ Exists(prev.disk, p) =>
                       ActiveVoxels(p) = Val(prev.ctx.mask_roi_body)[roi.id]
        /\ \A k \in Launched :
              /\ \E m \in ActivityCopies : m < PopenAt(k)
              /\ SimulatedFrom(k) = calls[k].task

\* a run entered with two organs that launched the simulator for both and
\* returned
C30_Witness ==
    /\ SimindRan
    /\ err = NoErr
    /\ ~IsNone(prev.ctx.class_seg)
    /\ Len(Val(prev.ctx.class_seg)) = 2
    /\ \A i \in 1 .. 2 :
          \E k \in Launched : calls[k].task = Val(prev.ctx.class_seg)[i].name

=============================================================================
